---- MODULE Spec2Model ----
(***************************************************************************)
(* Bug Capturer: the capture / deduplication / retention pipeline.         *)
(*                                                                         *)
(*   src/background.js            service worker: getStoredSteps,          *)
(*                                storeSteps, addStep, clearSteps and the  *)
(*                                runtime.onMessage listener               *)
(*   src/word-report-generator.js content script: recordStep, the input    *)
(*                                debounce listener, toggleRecording       *)
(*   src/unnamed/part_000         popup: clearSteps, captureScreenshot     *)
(*                                                                         *)
(* Scaling.  MAX_STEPS is 1000 and MAX_STORAGE_SIZE is 50 MB in the source;*)
(* the model keeps their roles and scales the values (12 entries, 100 size *)
(* units).  The byte-trim loop of storeSteps keeps its own numbers (floor  *)
(* of 10% of the length, stop at 10 entries), so MAX_STEPS is chosen above *)
(* 10 to let that loop run.  The dedup windows (100 ms, 25 ms) are kept.   *)
(***************************************************************************)
EXTENDS Integers, Sequences, FiniteSets, TLC

VARIABLES
  stored,      \* chrome.storage.local[STORAGE_KEY]: the StepLog (absent = <<>>)
  hpc,         \* per addStep invocation: "idle" | "set" (read done, write pending)
  hstep,       \* per addStep invocation: the newStep argument
  hsteps,      \* per addStep invocation: the local `steps` array to be written
  hpushed,     \* per addStep invocation: whether steps.push(newStep) ran
  last,        \* observation: the last completed log operation
  nOps,        \* observation: number of addStep invocations started
  recording,   \* content script: window.bcState.recording
  active,      \* popup: isExtensionActive
  urlCached,   \* content script: window.bcState.actualUrl is set
  pendingRec,  \* recordStep calls suspended in `await getActualTabUrl()`
  timers,      \* input elements with a pending debounce timer (inputTimers)
  msgs,        \* messages sent to the background and not yet handled
  now,         \* clock: number of user events so far (Date.now() is Stamp(now))
  gated,       \* observation: steps whose capture passed its gate
  element,     \* the form element an event is dispatched on
  produced,    \* the steps built for it, one per raw value of the element
  clock,       \* Date.now() of the page, ms
  fieldValue,  \* element.value of the input element (number of keystrokes typed)
  keyTimes,    \* observation: the times of the keystrokes so far
  inputTimers, \* inputTimers.get(element): the registered timer id, 0 if none
  pendingTimers, \* timers set by setTimeout and neither fired nor cleared
  suspendedCbs,  \* debounce callbacks suspended in `await getActualTabUrl()`
  inputSteps,  \* the steps the debounce callbacks have handed to recordStep
  gallery,     \* chrome.storage.local.screenshots: ids, newest first
  gpc,         \* per gallery handler invocation: "idle" | "set"
  gshot,       \* per gallery handler invocation: the screenshot being added
  gcopy,       \* per gallery handler invocation: its local `screenshots` array
  popupShots,  \* popup: the in-memory `screenshots` array
  shotId,      \* ids handed out so far (Date.now() of a capture)
  tracker,     \* popup: reportDownloadTracker flags [word, tvd]
  clearTimers, \* popup: pending auto-clear timeouts (setTimeout 1000)
  allSteps,    \* popup: the in-memory copy of the step log
  clears,      \* popup clearSteps calls in flight, by phase
  generated,   \* observation: report types generated since the last reset
  opens,       \* observation: how many times the popup was opened
  popupOp,     \* observation: the popup function that ran last
  sessionId,   \* capture agent: window.bcState.sessionId (0: none)
  startTime,   \* capture agent: window.bcState.startTime (0: none)
  persisted,   \* background: the persisted RecordingState
  csOut,       \* update-recording-state messages of the capture agent in flight
  popupPc,     \* popup: where activateExtension / deactivateExtension stands
  sessionLog,  \* the sessionId of every recorded step, with its activation
  activations, \* observation: activations so far
  tick,        \* the last value Date.now() gave to a session
  pauseSnap,   \* observation: the session at the last pause
  reportOut,   \* save-report messages of the capture agent in flight
  lastReport,  \* background: persistentState.lastReport
  pauses,      \* observation: transitions from recording to paused so far
  indicator,   \* capture agent: the indicator is on the page and visible
  mem,         \* background: persistentState in the worker's memory
  pushTimer,   \* background: tabUpdateTimeout, the tab it will restore (0: none)
  tabPc,       \* per tab: where the page's content script stands
  tabState,    \* per tab: bcState recording / sessionId / startTime
  reply,       \* per tab: the answer to get-persistent-state in flight
  completed,   \* observation, per tab: "no", or what the persisted state
               \* was when the page finished loading: "recording" / "idle"
  restoredBy,  \* observation, per tab: "push" / "pull" / "none"
  loads,       \* observation: page loads so far
  restarts,    \* observation: restarts of the background worker so far
  ctxValid,    \* capture agent: the extension context of the page is valid
  failMode,    \* how sendMessage fails in an invalidated context
  pageSteps,   \* capture agent: window.bcState.steps
  rejected,    \* capture agent: rejected sends whose .catch has not run yet
  failures,    \* observation: invalidated-context failures handled so far
  lateSteps,   \* observation: steps recorded after the first such failure
  rendered,    \* the numbered sentences of the last rendered step list
  renderedBy,  \* which renderer produced them: "none" / "rtf" / "popup"
  logBefore,   \* observation: the stored log when the renderer was called
  cropIn,      \* the rectangle asked for and the size of the source image
  cropOut,     \* what cropScreenshotToArea made of it
  capOut,      \* observation: the last screenshot capture and its outcome
  location,    \* the page: window.location.href
  lastNavigationUrl,  \* content script: the URL updateCurrentUrl saw last
  navSteps,    \* the navigation steps recorded, in order
  arrivals,    \* observation: the URLs arrived at while recording
  departures,  \* observation: the pages left while recording
  pendingDet,  \* the detectors that have yet to run after a URL change
  navPc,       \* the page: "idle" / "unloading" / "loading"
  heard        \* observation: the message the listener handled last, the
               \* responses it sent and the stored state before it

vars == <<stored, hpc, hstep, hsteps, hpushed, last, nOps,
          recording, active, urlCached, pendingRec, timers, msgs, now, gated,
          element, produced,
          clock, fieldValue, keyTimes, inputTimers, pendingTimers, suspendedCbs,
          inputSteps,
          gallery, gpc, gshot, gcopy, popupShots, shotId,
          tracker, clearTimers, allSteps, clears, generated, opens, popupOp,
          sessionId, startTime, persisted, csOut, popupPc, sessionLog,
          activations, tick, pauseSnap,
          reportOut, lastReport, pauses, indicator,
          mem, pushTimer, tabPc, tabState, reply, completed, restoredBy, loads,
          restarts, ctxValid, failMode, pageSteps, rejected, failures, lateSteps,
          rendered, renderedBy, logBefore, cropIn, cropOut, capOut,
          location, lastNavigationUrl, navSteps, arrivals, departures, pendingDet,
          navPc, heard>>

bgVars == <<stored, hpc, hstep, hsteps, hpushed, last, nOps>>
recVars == <<recording, active, urlCached, pendingRec, timers, msgs, now, gated>>
domVars == <<element, produced>>
dbVars == <<clock, fieldValue, keyTimes, inputTimers, pendingTimers, suspendedCbs,
            inputSteps>>
galVars == <<gallery, gpc, gshot, gcopy, popupShots, shotId>>
popVars == <<tracker, clearTimers, allSteps, clears, generated, opens, popupOp>>
sesVars == <<sessionId, startTime, persisted, csOut, popupPc, sessionLog,
            activations, tick, pauseSnap>>
repVars == <<reportOut, lastReport, pauses, indicator>>
\* The groups added after the session variables.
resVars == <<mem, pushTimer, tabPc, tabState, reply, completed, restoredBy,
            loads, restarts>>
ctxVars == <<ctxValid, failMode, pageSteps, rejected, failures, lateSteps>>
renVars == <<rendered, renderedBy, logBefore>>
imgVars == <<cropIn, cropOut, capOut>>
navVars == <<location, lastNavigationUrl, navSteps, arrivals, departures, pendingDet,
            navPc>>
lisVars == <<heard>>
moreVars == <<repVars, resVars, ctxVars, renVars, imgVars, navVars, lisVars>>
extVars == <<domVars, dbVars, galVars, popVars, sesVars, moreVars>>
csVars == <<recVars, extVars>>

----------------------------------------------------------------------------
(* Program constants                                                       *)

MAX_STEPS == 12            \* background.js:11  (1000, scaled)
MAX_STORAGE_SIZE == 100    \* background.js:10  (50 MB, scaled to size units)
TRIM_MIN_LENGTH == 10      \* background.js:48  trimmedSteps.length > 10
TRIM_DIVISOR == 10         \* background.js:49  Math.floor(length * 0.1)
EXACT_WINDOW_MS == 100     \* background.js:182 timeDiff <= 100
CLICK_WINDOW_MS == 25      \* background.js:191 timeDiff <= 25

(* Model bounds                                                            *)

SmallSize == 3             \* serialized size of an ordinary step
BigSize == 30              \* serialized size of a step carrying a dataURL
MaxSeqAppends == 2         \* appends per behaviour, sequential specification
MaxConcAppends == 3        \* appends per behaviour, concurrent specification
MaxQuotaAppends == 4       \* appends per behaviour, failing-store specification
ExtraAppends == 2          \* appends beyond MAX_STEPS, retention specification

----------------------------------------------------------------------------
(* Steps.  `undefined` is the JS undefined of a missing property.          *)

undefined == "undefined"

Abs(x) == IF x < 0 THEN -x ELSE x

Min(a, b) == IF a < b THEN a ELSE b

\* A step as the content script (recordStep) or the background (screenshot
\* handler) builds it; only the fields addStep and storeSteps look at.
MkStep(type, time, selector, text, action, value, size) ==
  [type |-> type, time |-> time, selector |-> selector, text |-> text,
   action |-> action, value |-> value, size |-> size]

NoStep == MkStep("none", 0, undefined, undefined, undefined, undefined, 0)

\* JSON.stringify(steps).length: brackets, the entries, the commas.
RECURSIVE SumSize(_)
SumSize(steps) ==
  IF steps = <<>> THEN 0 ELSE Head(steps).size + SumSize(Tail(steps))

JsonSize(steps) ==
  2 + SumSize(steps) + (IF Len(steps) > 0 THEN Len(steps) - 1 ELSE 0)

\* Array.prototype.slice(k): drop the first k entries.
SliceFrom(steps, k) == SubSeq(steps, k + 1, Len(steps))

\* Array.prototype.slice(-n): the last n entries.
SliceLast(steps, n) ==
  IF Len(steps) <= n THEN steps ELSE SubSeq(steps, Len(steps) - n + 1, Len(steps))

----------------------------------------------------------------------------
(* background.js: the pure parts of getStoredSteps, storeSteps, addStep    *)

\* getStoredSteps: the array it returns (and stores back) for a stored log.
TrimmedOnRead(log) ==
  IF Len(log) > MAX_STEPS THEN SliceLast(log, MAX_STEPS) ELSE log

\* storeSteps: the while loop dropping the oldest 10% of the entries.
RECURSIVE TrimLoop(_)
TrimLoop(trimmedSteps) ==
  IF JsonSize(trimmedSteps) > MAX_STORAGE_SIZE /\ Len(trimmedSteps) > TRIM_MIN_LENGTH
  THEN TrimLoop(SliceFrom(trimmedSteps, Len(trimmedSteps) \div TRIM_DIVISOR))
  ELSE trimmedSteps

\* storeSteps: the array handed to chrome.storage.local.set.
StorePayload(steps) ==
  IF JsonSize(steps) > MAX_STORAGE_SIZE THEN TrimLoop(steps) ELSE steps

\* Variant of isExactDuplicate with the 200 ms window the comment in addStep
\* says the rule once had.
isExactDuplicate_200(step, newStep) ==
  /\ Abs(step.time - newStep.time) <= 200
  /\ step.selector = newStep.selector
  /\ step.text = newStep.text
  /\ step.action = newStep.action
  /\ step.value = newStep.value

\* Variant of isExactDuplicate with the 25 ms window of the click rule.
isExactDuplicate_25(step, newStep) ==
  /\ Abs(step.time - newStep.time) <= 25
  /\ step.selector = newStep.selector
  /\ step.text = newStep.text
  /\ step.action = newStep.action
  /\ step.value = newStep.value

\* addStep, first rule of isDuplicate: exact duplicate within 100 ms.
isExactDuplicate(step, newStep) ==
  /\ Abs(step.time - newStep.time) <= EXACT_WINDOW_MS
  /\ step.selector = newStep.selector
  /\ step.text = newStep.text
  /\ step.action = newStep.action
  /\ step.value = newStep.value

\* Variant of isRapidClick with the 50 ms window the comment in addStep says
\* the rule once had.
isRapidClick_50(step, newStep) ==
  /\ Abs(step.time - newStep.time) <= 50
  /\ step.selector = newStep.selector
  /\ step.action = newStep.action
  /\ step.action = "click"

\* addStep, second rule of isDuplicate: rapid identical click within 25 ms.
isRapidClick(step, newStep) ==
  /\ Abs(step.time - newStep.time) <= CLICK_WINDOW_MS
  /\ step.selector = newStep.selector
  /\ step.action = newStep.action
  /\ step.action = "click"

\* addStep: steps.some(...).  The two trailing tests of the callback (both
\* submit, both screenshot) return false, as does the fall-through.
isDuplicate(steps, newStep) ==
  \E i \in 1..Len(steps) :
     \/ isExactDuplicate(steps[i], newStep)
     \/ isRapidClick(steps[i], newStep)

\* addStep: steps.shift() when the array read is at the cap.
ShiftAtCap(steps) ==
  IF Len(steps) >= MAX_STEPS THEN Tail(steps) ELSE steps

\* addStep: push, then splice down to the last 1000 (here MAX_STEPS).
PushAndSplice(steps, newStep) ==
  LET pushed == Append(steps, newStep)
  IN  IF Len(pushed) > MAX_STEPS
      THEN SliceFrom(pushed, Len(pushed) - MAX_STEPS)
      ELSE pushed

\* Variant of AddStepArray without the shift and the splice: dedup and push
\* only.
AddStepArray_nocap(steps, newStep) ==
  [steps  |-> IF isDuplicate(steps, newStep) THEN steps ELSE Append(steps, newStep),
   pushed |-> ~isDuplicate(steps, newStep)]

\* Variant of AddStepArray evicting the newest entry at the cap (pop for
\* shift).
AddStepArray_pop(steps, newStep) ==
  LET kept == IF Len(steps) >= MAX_STEPS THEN SubSeq(steps, 1, Len(steps) - 1) ELSE steps
      dup  == isDuplicate(kept, newStep)
  IN  [steps  |-> IF dup THEN kept ELSE PushAndSplice(kept, newStep),
       pushed |-> ~dup]

\* addStep between `await getStoredSteps()` and `storeSteps(steps)`:
\* the local array and whether newStep was pushed.
AddStepArray(steps, newStep) ==
  LET shifted == ShiftAtCap(steps)
      dup     == isDuplicate(shifted, newStep)
  IN  [steps  |-> IF dup THEN shifted ELSE PushAndSplice(shifted, newStep),
       pushed |-> ~dup]

----------------------------------------------------------------------------
(* background.js: addStep as two steps of one invocation h.  The storage   *)
(* read of getStoredSteps and the storage write of storeSteps are separate *)
(* platform operations; what runs between them is synchronous.             *)

Handlers == {1, 2}

\* Outcomes of chrome.storage.local.set inside storeSteps.
SetOk == "ok"
SetQuota == "QUOTA_EXCEEDED"
SetError == "error"

NoOp == [op |-> "none", step |-> NoStep, before |-> <<>>,
         pushed |-> FALSE, ok |-> TRUE, err |-> SetOk, setCalls |-> 0,
         inFlight |-> 0, everTrimmed |-> FALSE, recording |-> FALSE]

InFlight == Cardinality({h \in Handlers : hpc[h] # "idle"})

\* addStep(newStep) from its call to the resumption after
\* `await getStoredSteps()`: the storage read (with the trim-on-read write),
\* then shift, dedup, push and splice on the local array.
AddStepRead(h, newStep) ==
  /\ hpc[h] = "idle"
  /\ LET read == TrimmedOnRead(stored)
         r    == AddStepArray(read, newStep)
     IN  /\ stored'  = IF Len(stored) > MAX_STEPS THEN StorePayload(read) ELSE stored
         /\ hsteps'  = [hsteps EXCEPT ![h] = r.steps]
         /\ hpushed' = [hpushed EXCEPT ![h] = r.pushed]
  /\ hstep' = [hstep EXCEPT ![h] = newStep]
  /\ hpc'   = [hpc EXCEPT ![h] = "set"]
  /\ nOps'  = nOps + 1
  /\ UNCHANGED last

\* storeSteps(steps): the byte trimming, then chrome.storage.local.set takes
\* effect or throws; on QUOTA_EXCEEDED the catch block awaits clearSteps().
\* The trimming is a function of the local array alone, so it is taken with
\* the write.  last.everTrimmed records that some write trimmed for size.
AddStepWrite(h, outcome) ==
  /\ hpc[h] = "set"
  /\ stored' = CASE outcome = SetOk    -> StorePayload(hsteps[h])
                 [] outcome = SetQuota -> <<>>
                 [] OTHER              -> stored
  /\ last' = [op |-> "append", step |-> hstep[h], before |-> stored,
              pushed |-> hpushed[h],
              ok |-> (outcome = SetOk), err |-> outcome, setCalls |-> 1,
              inFlight |-> InFlight,
              everTrimmed |-> (last.everTrimmed \/ StorePayload(hsteps[h]) # hsteps[h]),
              recording |-> recording]
  /\ hpc'     = [hpc EXCEPT ![h] = "idle"]
  /\ hstep'   = [hstep EXCEPT ![h] = NoStep]
  /\ hsteps'  = [hsteps EXCEPT ![h] = <<>>]
  /\ hpushed' = [hpushed EXCEPT ![h] = FALSE]
  /\ UNCHANGED nOps

\* clearSteps (message clear-steps / clear-all): remove the key.
ClearSteps ==
  /\ stored' = <<>>
  /\ last' = [NoOp EXCEPT !.op = "clear", !.before = stored]
  /\ UNCHANGED <<hpc, hstep, hsteps, hpushed, nOps>>

----------------------------------------------------------------------------
(* Steps as the program builds them                                        *)

\* recordStep('click', element): text from getSafeText, no meta.value.
ClickStep(time, selector, text) ==
  MkStep("step", time, selector, text, "click", undefined, SmallSize)

\* input listener timer callback: text is the field name, meta.value the
\* display value.
InputStep(time, value) ==
  MkStep("step", time, "#name", "name", "input", value, SmallSize)

\* recordStep('submit', form, 'Submitted the form').
SubmitStep(time) ==
  MkStep("step", time, "#form", "Submitted the form", "submit", undefined, SmallSize)

\* onMessage capture-screenshot: no selector, no text, a dataURL.
ScreenshotStep(time) ==
  MkStep("screenshot", time, undefined, undefined, "screenshot", undefined, BigSize)

\* Capture times (ms) whose differences are 1, 25, 26, 75, 100 and 101.
SeqTimes == {0, 1, 26, 101}

SeqPool ==
  UNION { { ClickStep(t, "#btn", "OK"), ClickStep(t, "#btn", "Go"),
            InputStep(t, "a"), InputStep(t, "b"),
            SubmitStep(t), ScreenshotStep(t) } : t \in SeqTimes }

\* A log at the count cap, as MAX_STEPS appends leave it: a click at time 0,
\* then input steps 200 ms apart, far from every time of the pools.
FillerLog ==
  [i \in 1..MAX_STEPS |->
     IF i = 1 THEN ClickStep(0, "#btn", "OK") ELSE InputStep(1000 + 200 * i, "a")]

----------------------------------------------------------------------------
(* Initial states                                                          *)

InitBackground(logs) ==
  /\ stored \in logs
  /\ hpc = [h \in Handlers |-> "idle"]
  /\ hstep = [h \in Handlers |-> NoStep]
  /\ hsteps = [h \in Handlers |-> <<>>]
  /\ hpushed = [h \in Handlers |-> FALSE]
  /\ last = NoOp
  /\ nOps = 0

InitRecording ==
  /\ recording = FALSE
  /\ active = FALSE
  /\ urlCached = FALSE
  /\ pendingRec = <<>>
  /\ timers = {}
  /\ msgs = <<>>
  /\ now = 0
  /\ gated = {}

\* No element under observation.
InitDom ==
  /\ element = [tagName |-> "", name |-> "", id |-> "", placeholder |-> "", type |-> ""]
  /\ produced = <<>>

\* No keystroke yet, no timer.
InitTimers ==
  /\ clock = 0
  /\ fieldValue = 0
  /\ keyTimes = <<>>
  /\ inputTimers = 0
  /\ pendingTimers = {}
  /\ suspendedCbs = {}
  /\ inputSteps = <<>>

\* Gallery handlers idle, popup array as loaded from the stored gallery.
InitGalleryWith(galleries) ==
  /\ gallery \in galleries
  /\ gpc = [h \in Handlers |-> "idle"]
  /\ gshot = [h \in Handlers |-> 0]
  /\ gcopy = [h \in Handlers |-> <<>>]
  /\ popupShots = gallery
  /\ shotId = Len(gallery)

\* The popup as its script leaves it when it is loaded.
InitTracker ==
  /\ tracker = [word |-> FALSE, tvd |-> FALSE]
  /\ clearTimers = 0
  /\ allSteps = stored
  /\ clears = [sent |-> 0, logDone |-> 0, bgDone |-> 0, osent |-> 0, ologDone |-> 0]
  /\ generated = {}
  /\ opens = 1
  /\ popupOp = "open"

\* update-recording-state message.
StateMsg(isRecording, sid, st) ==
  [isRecording |-> isRecording, sessionId |-> sid, startTime |-> st]

\* Background 'update-recording-state': the persisted RecordingState a
\* message leaves (a missing sessionId or startTime is stored as null).
UpdateRecordingState(message) ==
  [isRecording |-> (message.isRecording = TRUE),
   sessionId   |-> IF message.sessionId # 0 THEN message.sessionId ELSE 0,
   startTime   |-> IF message.startTime # 0 THEN message.startTime ELSE 0]

NoSnap == [paused |-> FALSE]

\* persistentState.lastReport before any save-report.
NoReport == [kind |-> "none"]

\* The capture agent as its script leaves it (startTime: Date.now(), and a
\* sessionId generated at the end of the script), persistentState as
\* declared, the popup idle.
InitSession ==
  /\ sessionId = 1
  /\ startTime = 1
  /\ persisted = [isRecording |-> FALSE, sessionId |-> 0, startTime |-> 0]
  /\ csOut = <<>>
  /\ popupPc = "idle"
  /\ sessionLog = <<>>
  /\ activations = 0
  /\ tick = 1
  /\ pauseSnap = NoSnap
  /\ reportOut = <<>>
  /\ lastReport = NoReport
  /\ pauses = 0
  /\ indicator = FALSE

\* Tabs of the browser.
NumTabs == 2
Tabs == 1..NumTabs

\* persistentState as the worker's script declares it.
FreshState == [isRecording |-> FALSE, sessionId |-> 0, startTime |-> 0]

\* No page loaded in any tab, the worker's memory in line with the storage.
InitTabs ==
  /\ mem = persisted
  /\ pushTimer = 0
  /\ tabPc = [tb \in Tabs |-> "none"]
  /\ tabState = [tb \in Tabs |-> FreshState]
  /\ reply = [tb \in Tabs |-> FreshState]
  /\ completed = [tb \in Tabs |-> "no"]
  /\ restoredBy = [tb \in Tabs |-> "none"]
  /\ loads = 0
  /\ restarts = 0

\* A loaded page: `let lastNavigationUrl = window.location.href`.
InitNav ==
  /\ location = 1
  /\ lastNavigationUrl = 1
  /\ navSteps = <<>>
  /\ arrivals = <<>>
  /\ departures = 0
  /\ pendingDet = {}
  /\ navPc = "idle"

\* No message handled by the listener yet.
NoHeard == [cmd |-> "none", responses |-> <<>>, count |-> 0]

InitHeard == heard = NoHeard

\* No rectangle asked for.
NoCrop == [x |-> 0, y |-> 0, width |-> 0, height |-> 0, W |-> 0, H |-> 0]

\* No screenshot cropped or captured yet.
InitImages(crops) ==
  /\ cropIn \in crops
  /\ cropOut = [status |-> "none"]
  /\ capOut = [cmd |-> "none"]

\* No report rendered yet.
InitRender ==
  /\ rendered = <<>>
  /\ renderedBy = "none"
  /\ logBefore = <<>>

\* A content script in a valid extension context, nothing recorded yet.
InitCtx ==
  /\ ctxValid = TRUE
  /\ failMode = "none"
  /\ pageSteps = <<>>
  /\ rejected = 0
  /\ failures = 0
  /\ lateSteps = 0

InitContent ==
  /\ InitRecording /\ InitDom /\ InitTimers /\ InitGalleryWith({<<>>})
  /\ InitTracker /\ InitSession /\ InitTabs /\ InitCtx /\ InitRender
  /\ InitImages({NoCrop})
  /\ InitNav
  /\ InitHeard

----------------------------------------------------------------------------
(* SpecSeq: one addStep at a time, every storage write succeeds.  The log  *)
(* starts empty or at the count cap.                                       *)

InitSeq == InitBackground({<<>>, FillerLog}) /\ InitContent

SeqAppend ==
  /\ \E s \in SeqPool : nOps < MaxSeqAppends /\ AddStepRead(1, s)
  /\ UNCHANGED csVars

SeqStore == AddStepWrite(1, SetOk) /\ UNCHANGED csVars

NextSeq == SeqAppend \/ SeqStore

SpecSeq == InitSeq /\ [][NextSeq]_vars

----------------------------------------------------------------------------
(* Dedup rules as the specification words them                             *)

ClaimExact(e, s) ==
  /\ Abs(e.time - s.time) <= 100
  /\ e.selector = s.selector /\ e.text = s.text
  /\ e.action = s.action /\ e.value = s.value

ClaimRapid(e, s) ==
  /\ Abs(e.time - s.time) <= 25
  /\ e.selector = s.selector
  /\ e.action = "click" /\ s.action = "click"

ClaimDuplicate(L, s) ==
  \E i \in 1..Len(L) : ClaimExact(L[i], s) \/ ClaimRapid(L[i], s)

LastEntry(L) == L[Len(L)]

AppendDone == last.op = "append" /\ last.ok

\* C1: for an append of s to the log L, alone in flight, s is not stored iff
\* L holds a step matching rule (a) or rule (b); otherwise s is the last
\* entry of the log afterwards.
C1_SuppressedIffDuplicate ==
  AppendDone =>
    LET L == last.before
        s == last.step
    IN  /\ (~last.pushed) <=> ClaimDuplicate(L, s)
        /\ ~ClaimDuplicate(L, s) => (stored # <<>> /\ LastEntry(stored) = s)

\* C33: an append that is suppressed as a duplicate leaves the stored log
\* exactly as it was, also when the log is at the count cap.
C33_SuppressedLeavesLog ==
  (AppendDone /\ ~last.pushed) => stored = last.before

IsSubmitOrScreenshot(s) == s.action = "submit" \/ s.type = "screenshot"

StoredLast(s) == stored # <<>> /\ LastEntry(stored) = s

\* C3 as stated: a submit or screenshot step is always stored by append,
\* whatever the log holds.
C3_AlwaysStored ==
  (AppendDone /\ IsSubmitOrScreenshot(last.step)) =>
    (last.pushed /\ StoredLast(last.step))

\* C3 amended: a submit or screenshot step is stored by append whenever the
\* log holds no step at most 100 ms from it with the same selector, text,
\* action and meta value; time proximity alone never suppresses it.
C3_StoredUnlessExactDuplicate ==
  (AppendDone /\ IsSubmitOrScreenshot(last.step)) =>
    LET L == last.before
        s == last.step
    IN  (~ \E i \in 1..Len(L) : ClaimExact(L[i], s)) =>
          (last.pushed /\ StoredLast(s))

\* A submit or screenshot step stored although the log held a step at most
\* 25 ms from it.
C3_Witness ==
  /\ AppendDone /\ IsSubmitOrScreenshot(last.step)
  /\ last.pushed /\ StoredLast(last.step)
  /\ \E i \in 1..Len(last.before) :
        Abs(last.before[i].time - last.step.time) <= 25

\* Two clicks on one target appended one after the other: a is the last
\* entry of the log when b = last.step is appended.
ClickPair ==
  /\ AppendDone
  /\ last.before # <<>>
  /\ LastEntry(last.before).action = "click"
  /\ last.step.action = "click"
  /\ LastEntry(last.before).selector = last.step.selector

ClickGap == Abs(LastEntry(last.before).time - last.step.time)

BothStored ==
  /\ last.pushed
  /\ Len(stored) >= 2
  /\ stored[Len(stored)] = last.step
  /\ stored[Len(stored) - 1] = LastEntry(last.before)

OnlyFirstStored ==
  /\ ~last.pushed
  /\ StoredLast(LastEntry(last.before))

\* C4 as stated: at most 25 ms apart exactly one click is stored, 26 ms or
\* more apart both are.
C4_ClickCollapse ==
  ClickPair =>
    /\ (ClickGap <= 25) => OnlyFirstStored
    /\ (ClickGap >= 26) => BothStored

\* C4 amended: at most 25 ms apart exactly one is stored; 26 ms or more
\* apart both are stored exactly when they are more than 100 ms apart or
\* differ in text or meta value (otherwise the second is an exact duplicate
\* and only the first is stored), no earlier step of the log being a
\* duplicate of the second click.
C4_ClickCollapseAmended ==
  (ClickPair /\ ~ClaimDuplicate(SubSeq(last.before, 1, Len(last.before) - 1), last.step)) =>
    LET a == LastEntry(last.before)
        b == last.step
        exact == ClickGap <= 100 /\ a.text = b.text /\ a.value = b.value
    IN  /\ (ClickGap <= 25) => OnlyFirstStored
        /\ (ClickGap >= 26 /\ ~exact) => BothStored
        /\ (ClickGap >= 26 /\ exact) => OnlyFirstStored

\* Two clicks on one target exactly 26 ms apart, both stored.
C4_Witness ==
  ClickPair /\ ClickGap = 26 /\ BothStored

----------------------------------------------------------------------------
(* SpecConc: two addStep invocations whose storage reads and writes        *)
(* interleave (two tabs, or two messages in one service worker); every     *)
(* write succeeds.                                                         *)

ConcTimes == {0, 26, 101}

ConcPool ==
  UNION { { ClickStep(t, "#btn", "OK"), InputStep(t, "a"), SubmitStep(t) } : t \in ConcTimes }

InitConc == InitBackground({<<>>, FillerLog}) /\ InitContent

ConcAppend ==
  /\ \E h \in Handlers : \E s \in ConcPool :
       nOps < MaxConcAppends /\ AddStepRead(h, s)
  /\ UNCHANGED csVars

ConcStore == (\E h \in Handlers : AddStepWrite(h, SetOk)) /\ UNCHANGED csVars

NextConc == ConcAppend \/ ConcStore

SpecConc == InitConc /\ [][NextConc]_vars

\* C2: the stored log never holds two steps, submits and screenshots aside,
\* with identical kind, selector, text and meta value at most 100 ms apart,
\* whatever the interleaving of the appends.
C2_NoNearDuplicatePair ==
  \A i \in 1..Len(stored) : \A j \in 1..Len(stored) :
     (i < j /\ ~IsSubmitOrScreenshot(stored[i])) => ~ClaimExact(stored[i], stored[j])

\* An append has stored its step while another append, already past its
\* read of the log, is about to store a duplicate of it.
C2_Witness ==
  /\ AppendDone /\ last.pushed /\ ~IsSubmitOrScreenshot(last.step)
  /\ \E h \in Handlers :
        /\ hpc[h] = "set" /\ hpushed[h]
        /\ hstep[h] # last.step
        /\ ClaimExact(hstep[h], last.step)

\* C5: in every reachable state the stored log holds at most MAX_STEPS steps.
C5_CountCap == Len(stored) <= MAX_STEPS

\* An append to a log at the cap has been stored while another append was
\* in flight.
C5_Witness ==
  /\ AppendDone /\ last.pushed
  /\ Len(last.before) = MAX_STEPS
  /\ Len(stored) = MAX_STEPS
  /\ last.inFlight = 2

InLog(s, L) == \E i \in 1..Len(L) : L[i] = s

\* C11: when two appends of distinct, non-duplicate steps are in flight at
\* the same time, both steps are in the stored log once both have completed:
\* the later write does not overwrite the step of the earlier one.  (last is
\* the earlier append, completed while g had already read the log; the step
\* is the write of g.)
C11_BothStored ==
  [][\A g \in Handlers :
       ( /\ hpc[g] = "set" /\ hpc'[g] = "idle"
         /\ last.op = "append" /\ last.ok /\ last.pushed /\ last.inFlight = 2
         /\ hpushed[g]
         /\ hstep[g] # last.step
         /\ ~ClaimDuplicate(<<last.step>>, hstep[g])
         /\ InLog(last.step, stored) )
       => (InLog(last.step, stored') /\ InLog(hstep[g], stored'))]_vars

----------------------------------------------------------------------------
(* SpecRetention: appends one after the other to an empty log; the k-th    *)
(* step is captured at 200*k ms, so no two are duplicates; each is an      *)
(* ordinary step or a screenshot step (large).  Every write succeeds.      *)

RetentionStep(k) == { InputStep(200 * k, "a"), ScreenshotStep(200 * k) }

InitRetention == InitBackground({<<>>}) /\ InitContent

RetentionAppend ==
  /\ \E s \in RetentionStep(nOps + 1) :
       nOps < MAX_STEPS + ExtraAppends /\ AddStepRead(1, s)
  /\ UNCHANGED csVars

RetentionStore == AddStepWrite(1, SetOk) /\ UNCHANGED csVars

NextRetention == RetentionAppend \/ RetentionStore

SpecRetention == InitRetention /\ [][NextRetention]_vars

\* The stored log is the steps number from..nOps of the appended sequence.
StoredIsWindow(from) ==
  /\ Len(stored) = nOps - from + 1
  /\ \A i \in 1..Len(stored) : stored[i].time = 200 * (from + i - 1)

AllDone == \A h \in Handlers : hpc[h] = "idle"

\* C6 as stated: after n > cap non-duplicate appends to an empty log the log
\* is exactly the last cap steps, in order.
C6_LastCapSteps ==
  (AllDone /\ nOps > MAX_STEPS) => StoredIsWindow(nOps - MAX_STEPS + 1)

\* C6 amended: the stored log is always a suffix of the appended sequence,
\* in order, of at most cap steps (only oldest steps are evicted); it is
\* exactly the last min(n, cap) steps as long as no store write had to trim
\* the log for the byte cap.
C6_SlidingWindow ==
  AllDone =>
    /\ Len(stored) <= MAX_STEPS
    /\ StoredIsWindow(nOps - Len(stored) + 1)
    /\ ~last.everTrimmed => Len(stored) = Min(nOps, MAX_STEPS)

\* cap + 1 steps appended, none trimmed for size: steps 2..cap+1 remain.
C6_Witness ==
  /\ AllDone /\ nOps = MAX_STEPS + 1 /\ ~last.everTrimmed
  /\ StoredIsWindow(2)

----------------------------------------------------------------------------
(* SpecQuota: appends one after the other where chrome.storage.local.set   *)
(* may succeed, throw QUOTA_EXCEEDED or throw another error (the platform  *)
(* quota is not part of the source), and the clear-steps command.          *)

SetOutcomes == {SetOk, SetQuota, SetError}

InitQuota == InitBackground({<<>>}) /\ InitContent

QuotaAppend ==
  /\ \E s \in RetentionStep(nOps + 1) : nOps < MaxQuotaAppends /\ AddStepRead(1, s)
  /\ UNCHANGED csVars

QuotaStore ==
  (\E outcome \in SetOutcomes : AddStepWrite(1, outcome)) /\ UNCHANGED csVars

QuotaClear == AllDone /\ last.op # "clear" /\ ClearSteps /\ UNCHANGED csVars

NextQuota == QuotaAppend \/ QuotaStore \/ QuotaClear

SpecQuota == InitQuota /\ [][NextQuota]_vars

\* C7: after every store write that reports success the serialized stored
\* log is at most MAX_STORAGE_SIZE, for any number and size of steps.
C7_ByteCap ==
  AppendDone => JsonSize(stored) <= MAX_STORAGE_SIZE

\* C8: when the write of an append fails with QUOTA_EXCEEDED the gateway
\* drops a fraction of the oldest entries and writes once more (two calls of
\* set), and the steps stored before that are not in the dropped fraction,
\* the newest one at least, are still stored.
C8_QuotaRemediation ==
  (last.op = "append" /\ last.err = SetQuota) =>
    /\ last.setCalls = 2
    /\ last.before # <<>> =>
         \E i \in 1..Len(stored) : stored[i] = LastEntry(last.before)

\* C9: the stored log goes from non-empty to empty only by a clear command.
C9_OnlyClearEmpties ==
  [][(stored # <<>> /\ stored' = <<>>) => last'.op = "clear"]_vars

----------------------------------------------------------------------------
(* SpecRec: the recording state machine of the content script and popup,   *)
(* the capture paths that lead to an append, and the background handlers   *)
(* of their messages.  Every storage write succeeds.                       *)

MaxRecEvents == 2          \* user events (click, input, screenshot) per behaviour

\* Date.now() at the now-th user event; events are further apart than the
\* dedup window.
Stamp(n) == n * (EXACT_WINDOW_MS + 1)

InputElements == {"#name"}

StoreStepMsg(step) == [cmd |-> "store-step", step |-> step, timestamp |-> 0]

CaptureMsg(timestamp) ==
  [cmd |-> "capture-screenshot-pause", step |-> NoStep, timestamp |-> timestamp]

\* A call suspended in `await getActualTabUrl()`: stage "timer" is the
\* debounce callback building its step (before recordStep is called), stage
\* "record" is recordStep past its entry test.  sawRecording is the value of
\* window.bcState.recording that the entry test read.
Suspended(stage, action, time, sawRecording) ==
  [stage |-> stage, action |-> action, time |-> time, sawRecording |-> sawRecording]

RemoveAt(seq, i) == SubSeq(seq, 1, i - 1) \o SubSeq(seq, i + 1, Len(seq))

\* Variant of ShouldRecord without the entry test of recordStep.
ShouldRecord_always == TRUE

\* recordStep: `if (!window.bcState.recording) return;`
ShouldRecord == recording

\* The step recordStep builds for a call of the given kind.
BuiltStep(action, time) ==
  IF action = "click" THEN ClickStep(time, "#btn", "OK") ELSE InputStep(time, "a")

\* recordStep past its entry test with the URL known: push and sendMessage.
Dispatch(step, sawRecording) ==
  /\ msgs'  = Append(msgs, StoreStepMsg(step))
  /\ gated' = IF sawRecording THEN gated \cup {step} ELSE gated

\* popup activateExtension and the content script's activate-extension.
Activate ==
  /\ ~active
  /\ active' = TRUE
  /\ recording' = TRUE
  /\ UNCHANGED <<extVars, bgVars, urlCached, pendingRec, timers, msgs, now, gated>>

\* popup deactivateExtension (stopRecording, then deactivate-extension).
Deactivate ==
  /\ active
  /\ active' = FALSE
  /\ recording' = FALSE
  /\ UNCHANGED <<extVars, bgVars, urlCached, pendingRec, timers, msgs, now, gated>>

\* toggleRecording (popup toggle, indicator pause / start buttons).
ToggleRecording ==
  /\ active
  /\ recording' = ~recording
  /\ UNCHANGED <<extVars, bgVars, active, urlCached, pendingRec, timers, msgs, now, gated>>

\* popup stopRecording: __bugCapturerStop to the tab; the popup stays active.
StopRecording ==
  /\ active
  /\ recording
  /\ recording' = FALSE
  /\ UNCHANGED <<extVars, bgVars, active, urlCached, pendingRec, timers, msgs, now, gated>>

\* click listener: recordStep('click', target).
ClickEvent ==
  /\ now < MaxRecEvents
  /\ now' = now + 1
  /\ ShouldRecord
  /\ IF urlCached
       THEN Dispatch(ClickStep(Stamp(now'), "#btn", "OK"), recording)
              /\ UNCHANGED pendingRec
       ELSE pendingRec' = Append(pendingRec, Suspended("record", "click", 0, recording))
              /\ UNCHANGED <<msgs, gated>>
  /\ UNCHANGED <<extVars, bgVars, recording, active, urlCached, timers>>

\* input listener: (re)arm the 800 ms timer of the element; the listener
\* does not look at the recording flag.
InputEvent ==
  /\ now < MaxRecEvents
  /\ now' = now + 1
  /\ \E el \in InputElements : timers' = timers \cup {el}
  /\ UNCHANGED <<extVars, bgVars, recording, active, urlCached, pendingRec, msgs, gated>>

\* The debounce callback runs: with the URL cached it builds the step and
\* calls recordStep at once, otherwise it is suspended on the URL first.
TimerFire ==
  /\ \E el \in timers : timers' = timers \ {el}
  /\ IF urlCached
       THEN /\ IF ShouldRecord
                 THEN Dispatch(InputStep(Stamp(now), "a"), recording)
                 ELSE UNCHANGED <<msgs, gated>>
            /\ UNCHANGED pendingRec
       ELSE pendingRec' = Append(pendingRec, Suspended("timer", "input", 0, FALSE))
              /\ UNCHANGED <<msgs, gated>>
  /\ UNCHANGED <<extVars, bgVars, recording, active, urlCached, now>>

\* getActualTabUrl resumes for the i-th suspended call; gotUrl says whether
\* the response carried a URL (which is then cached) or the fallback is used.
UrlResolve(i, gotUrl) ==
  /\ i \in DOMAIN pendingRec
  /\ urlCached' = (urlCached \/ gotUrl)
  /\ LET call == pendingRec[i]
         rest == RemoveAt(pendingRec, i)
         time == IF call.time = 0 THEN Stamp(now) ELSE call.time
     IN  CASE call.stage = "record" ->
                /\ Dispatch(BuiltStep(call.action, time), call.sawRecording)
                /\ pendingRec' = rest
           [] call.stage = "timer" /\ ~ShouldRecord ->
                /\ pendingRec' = rest
                /\ UNCHANGED <<msgs, gated>>
           [] call.stage = "timer" /\ ShouldRecord /\ urlCached' ->
                /\ Dispatch(BuiltStep(call.action, Stamp(now)), recording)
                /\ pendingRec' = rest
           [] OTHER ->
                /\ pendingRec' = Append(rest, Suspended("record", call.action,
                                                        Stamp(now), recording))
                /\ UNCHANGED <<msgs, gated>>
  /\ UNCHANGED <<extVars, bgVars, recording, active, timers, now>>

\* keydown listener, Alt+Ctrl+P: only while recording.
ShortcutScreenshot ==
  /\ now < MaxRecEvents
  /\ now' = now + 1
  /\ recording
  /\ msgs' = Append(msgs, CaptureMsg(Stamp(now')))
  /\ gated' = gated \cup {ScreenshotStep(Stamp(now'))}
  /\ UNCHANGED <<extVars, bgVars, recording, active, urlCached, pendingRec, timers>>

\* popup captureScreenshot / captureScreenshotAdvanced: only while the
\* extension is active; the recording flag is not consulted.
PopupScreenshot ==
  /\ now < MaxRecEvents
  /\ now' = now + 1
  /\ active
  /\ msgs' = Append(msgs, CaptureMsg(Stamp(now')))
  /\ gated' = gated \cup {ScreenshotStep(Stamp(now'))}
  /\ UNCHANGED <<extVars, bgVars, recording, active, urlCached, pendingRec, timers>>

\* onMessage store-step / add-step: addStep(message.step).
HandleStoreStep(h) ==
  /\ msgs # <<>>
  /\ Head(msgs).cmd = "store-step"
  /\ AddStepRead(h, Head(msgs).step)
  /\ msgs' = Tail(msgs)
  /\ UNCHANGED <<extVars, recording, active, urlCached, pendingRec, timers, now, gated>>

\* onMessage capture-screenshot-pause: captureVisibleTab, then
\* addStep(screenshotStep); when the capture throws no step is built.
HandleCapture(h, captured) ==
  /\ msgs # <<>>
  /\ Head(msgs).cmd = "capture-screenshot-pause"
  /\ IF captured
       THEN AddStepRead(h, ScreenshotStep(Head(msgs).timestamp))
       ELSE hpc[h] = "idle" /\ UNCHANGED bgVars
  /\ msgs' = Tail(msgs)
  /\ UNCHANGED <<extVars, recording, active, urlCached, pendingRec, timers, now, gated>>

RecStore(h) == AddStepWrite(h, SetOk) /\ UNCHANGED csVars

InitRec == InitBackground({<<>>}) /\ InitContent

NextRec ==
  \/ Activate
  \/ Deactivate
  \/ ToggleRecording
  \/ StopRecording
  \/ ClickEvent
  \/ InputEvent
  \/ TimerFire
  \/ \E i \in DOMAIN pendingRec : \E gotUrl \in BOOLEAN : UrlResolve(i, gotUrl)
  \/ ShortcutScreenshot
  \/ PopupScreenshot
  \/ \E h \in Handlers : HandleStoreStep(h)
  \/ \E h \in Handlers : \E captured \in BOOLEAN : HandleCapture(h, captured)
  \/ \E h \in Handlers : RecStore(h)

SpecRec == InitRec /\ [][NextRec]_vars

\* The last completed append added its step to the stored log.
StepAdded == last.op = "append" /\ last.ok /\ last.pushed

----------------------------------------------------------------------------
(* SpecRedact: the text, meta.value and meta.details of the steps the      *)
(* content script builds for one form element, computed for two raw values *)
(* of the element side by side.  Strings are sequences of tokens; a raw    *)
(* value is one token, so "contains the raw value" is membership.          *)

FieldNames == {"", "user", "password", "apiKey"}

\* SENSITIVE_PATTERNS.test(name): the names of the pool in which the
\* case-insensitive pattern password|pwd|secret|token|key|... is found.
SENSITIVE_PATTERNS(name) == name \in {"password", "apiKey"}

RawValues == <<"hunter2", "s3cret">>

Elements ==
  [tagName : {"INPUT"}, name : FieldNames, id : FieldNames,
   placeholder : FieldNames, type : {"text", "password"}]
  \cup
  [tagName : {"SELECT"}, name : FieldNames, id : FieldNames,
   placeholder : {""}, type : {"select-one"}]

\* JS `a || b` on strings: the first non-empty one.
OrElse(a, b) == IF a # "" THEN a ELSE b

\* getSafeText(element, value) for an element whose current value is raw.
getSafeText(el, value, raw) ==
  LET text == IF value # <<>> THEN value ELSE <<raw>>
      name == OrElse(el.name, OrElse(el.id, OrElse(el.placeholder, el.type)))
      identifier == OrElse(el.placeholder, OrElse(el.name,
                      OrElse(el.id, OrElse(el.type, "field"))))
  IN  IF SENSITIVE_PATTERNS(name) THEN <<"[REDACTED]">>
      ELSE IF el.tagName \in {"INPUT", "SELECT", "TEXTAREA"}
             THEN IF value # <<>> THEN <<identifier, ": ">> \o value
                                  ELSE <<identifier>>
             ELSE text

\* recordStep(type, element, details): text and meta of the step.
RecordedStep(action, el, details, raw) ==
  [action |-> action, text |-> getSafeText(el, details, raw),
   value |-> undefined, details |-> <<>>]

\* Input listener timer callback: fieldName, isSensitive, displayValue.
DebouncedInputStep(el, raw) ==
  LET fieldName == OrElse(el.placeholder, OrElse(el.name,
                     OrElse(el.id, OrElse(el.type, el.tagName))))
      displayValue == IF SENSITIVE_PATTERNS(fieldName) THEN "[REDACTED]" ELSE raw
  IN  [action |-> "input", text |-> <<fieldName>>, value |-> displayValue,
       details |-> <<"Entered \"", displayValue, "\" in ", fieldName>>]

\* click listener on the element.
CaptureClick ==
  /\ produced' = [k \in DOMAIN RawValues |->
                    RecordedStep("click", element, <<>>, RawValues[k])]
  /\ UNCHANGED <<bgVars, recVars, dbVars, galVars, popVars, sesVars, moreVars, element>>

\* keydown listener, Enter in an input or textarea.
CaptureKeypress ==
  /\ element.tagName = "INPUT"
  /\ produced' = [k \in DOMAIN RawValues |->
                    RecordedStep("keypress", element, <<"Pressed Enter">>, RawValues[k])]
  /\ UNCHANGED <<bgVars, recVars, dbVars, galVars, popVars, sesVars, moreVars, element>>

\* change listener on a select: the text of the selected option.
CaptureSelect ==
  /\ element.tagName = "SELECT"
  /\ produced' = [k \in DOMAIN RawValues |->
                    RecordedStep("select", element, <<"Selected: ", RawValues[k]>>, RawValues[k])]
  /\ UNCHANGED <<bgVars, recVars, dbVars, galVars, popVars, sesVars, moreVars, element>>

\* input listener, the debounce callback.
CaptureInput ==
  /\ element.tagName = "INPUT"
  /\ produced' = [k \in DOMAIN RawValues |->
                    DebouncedInputStep(element, RawValues[k])]
  /\ UNCHANGED <<bgVars, recVars, dbVars, galVars, popVars, sesVars, moreVars, element>>

InitRedact ==
  /\ InitBackground({<<>>})
  /\ InitRecording
  /\ element \in Elements
  /\ produced = <<>>
  /\ InitTimers
  /\ InitGalleryWith({<<>>})
  /\ InitTracker
  /\ InitSession
  /\ InitTabs
  /\ InitCtx
  /\ InitRender
  /\ InitImages({NoCrop})
  /\ InitNav
  /\ InitHeard

NextRedact == CaptureClick \/ CaptureKeypress \/ CaptureSelect \/ CaptureInput

SpecRedact == InitRedact /\ [][NextRedact]_vars

ElementSensitive ==
  \/ SENSITIVE_PATTERNS(element.name)
  \/ SENSITIVE_PATTERNS(element.id)
  \/ SENSITIVE_PATTERNS(element.placeholder)

HoldsRaw(step, raw) ==
  \/ \E i \in DOMAIN step.text : step.text[i] = raw
  \/ step.value = raw
  \/ \E i \in DOMAIN step.details : step.details[i] = raw

\* C12: for an element whose name, id or placeholder matches the sensitive
\* pattern, the step recorded is the same for any two raw values and holds
\* the raw value nowhere in its text, meta value or details.
C12_RedactedWhateverTheValue ==
  (produced # <<>> /\ ElementSensitive) =>
    /\ produced[1] = produced[2]
    /\ \A k \in DOMAIN produced : ~HoldsRaw(produced[k], RawValues[k])

----------------------------------------------------------------------------
(* SpecDebounce: the input listener and its 800 ms timers on one input     *)
(* element, with explicit time, while recording.  A timer fires as soon as *)
(* it is due.  inputSteps are the steps handed to recordStep; what         *)
(* recordStep does with them is SpecRec.                                   *)

DEBOUNCE_MS == 800         \* word-report-generator.js:1141  setTimeout(..., 800)

TickMs == 400              \* granularity of time
MaxClock == 2000           \* time stops here
MaxKeystrokes == 3         \* keystrokes per behaviour

TimerDue == \E tm \in pendingTimers : tm.due <= clock

\* Time passes; not past a timer that is due.
Tick ==
  /\ clock < MaxClock
  /\ ~TimerDue
  /\ clock' = clock + TickMs
  /\ UNCHANGED <<bgVars, recVars, domVars, galVars, popVars, sesVars, moreVars, fieldValue, keyTimes, inputTimers,
                 pendingTimers, suspendedCbs, inputSteps>>

\* input listener: clearTimeout of the registered timer, if the map has
\* one, then setTimeout and inputTimers.set.
Keystroke ==
  /\ Len(keyTimes) < MaxKeystrokes
  /\ ~TimerDue
  /\ LET id == Len(keyTimes) + 1
     IN  /\ pendingTimers' =
               {tm \in pendingTimers : tm.id # inputTimers}
                 \cup {[id |-> id, due |-> clock + DEBOUNCE_MS]}
         /\ inputTimers' = id
  /\ fieldValue' = fieldValue + 1
  /\ keyTimes' = Append(keyTimes, clock)
  /\ UNCHANGED <<bgVars, recVars, domVars, galVars, popVars, sesVars, moreVars, clock, suspendedCbs, inputSteps>>

\* The step the callback builds when it starts: value and time are read
\* before the await; nKeys observes how many keystrokes had happened.
DebouncedStep == [time |-> clock, value |-> fieldValue, nKeys |-> Len(keyTimes)]

\* The timer callback starts.  With the URL cached it runs to its end:
\* recordStep(step), inputTimers.delete(element).  Otherwise it is suspended
\* in getActualTabUrl, the map untouched.
DebounceFire ==
  \E tm \in pendingTimers :
    /\ tm.due <= clock
    /\ pendingTimers' = pendingTimers \ {tm}
    /\ IF urlCached
         THEN /\ inputSteps' = Append(inputSteps, DebouncedStep)
              /\ inputTimers' = 0
              /\ UNCHANGED suspendedCbs
         ELSE /\ suspendedCbs' = suspendedCbs \cup {DebouncedStep}
              /\ UNCHANGED <<inputSteps, inputTimers>>
    /\ UNCHANGED <<bgVars, recVars, domVars, galVars, popVars, sesVars, moreVars, clock, fieldValue, keyTimes>>

\* A suspended callback resumes: recordStep(step), then
\* inputTimers.delete(element), whatever timer the map holds by now.
DebounceResume ==
  \E cb \in suspendedCbs : \E gotUrl \in BOOLEAN :
    /\ suspendedCbs' = suspendedCbs \ {cb}
    /\ urlCached' = (urlCached \/ gotUrl)
    /\ inputSteps' = Append(inputSteps, cb)
    /\ inputTimers' = 0
    /\ UNCHANGED <<bgVars, recording, active, pendingRec, timers, msgs, now, gated,
                   domVars, galVars, popVars, sesVars, moreVars, clock, fieldValue, keyTimes, pendingTimers>>

InitDebounce ==
  /\ InitBackground({<<>>})
  /\ recording = TRUE /\ active = TRUE
  /\ urlCached = FALSE
  /\ pendingRec = <<>> /\ timers = {} /\ msgs = <<>> /\ now = 0 /\ gated = {}
  /\ InitDom
  /\ InitTimers
  /\ InitGalleryWith({<<>>})
  /\ InitTracker
  /\ InitSession
  /\ InitTabs
  /\ InitCtx
  /\ InitRender
  /\ InitImages({NoCrop})
  /\ InitNav
  /\ InitHeard

NextDebounce == Tick \/ Keystroke \/ DebounceFire \/ DebounceResume

SpecDebounce == InitDebounce /\ [][NextDebounce]_vars

\* Number of bursts: a keystroke 800 ms or more after the previous one
\* starts a new burst.
Bursts ==
  Cardinality({i \in DOMAIN keyTimes :
                 i = 1 \/ keyTimes[i] - keyTimes[i - 1] >= DEBOUNCE_MS})

\* C13: at most one input step per burst of keystrokes, produced no earlier
\* than 800 ms after the last keystroke before it, carrying the value the
\* element has at that moment.
C13_OneStepPerBurst ==
  /\ Len(inputSteps) <= Bursts
  /\ \A i \in DOMAIN inputSteps :
       /\ inputSteps[i].time >= keyTimes[inputSteps[i].nKeys] + DEBOUNCE_MS
       /\ inputSteps[i].value = inputSteps[i].nKeys

\* C14: the element has at most one pending timer, and the timer registered
\* for it, if any, is that pending timer (a fired timer is not registered).
C14_SingleTimer ==
  /\ Cardinality(pendingTimers) <= 1
  /\ inputTimers # 0 => \E tm \in pendingTimers : tm.id = inputTimers

(***************************************************************************)
(* The screenshot gallery: chrome.storage.local.screenshots, written by    *)
(* the background handlers 'custom-screenshot-captured' and                *)
(* 'add-screenshot-to-gallery' (read, unshift, splice(20), write) and by   *)
(* the popup, which writes its own in-memory array.  A screenshot is its   *)
(* id; ids grow with the time of capture, so the oldest entry is the       *)
(* smallest id.                                                            *)
(***************************************************************************)
GALLERY_LIMIT == 20

\* Screenshots added in one behaviour.
MaxShots == 3

\* screenshots.splice(20) / screenshots.slice(0, 20)
LimitGallery(shots) ==
  IF Len(shots) > GALLERY_LIMIT THEN SubSeq(shots, 1, GALLERY_LIMIT) ELSE shots

\* screenshots.unshift(shot), then the limit.
UnshiftShot(shot, shots) == LimitGallery(<<shot>> \o shots)

\* deduplicateScreenshots: the first occurrence of every identifier is kept.
deduplicateScreenshots(shots) ==
  SelectSeq([i \in DOMAIN shots |->
               IF \E j \in 1..(i - 1) : shots[j] = shots[i] THEN 0 ELSE shots[i]],
            LAMBDA s : s # 0)

\* A stored gallery of n screenshots, newest first.
GalleryOf(n) == [i \in 1..n |-> n + 1 - i]

\* Fewer than MaxShots screenshots were added to the initial gallery (which
\* is empty or one short of the limit).
MoreShots ==
  \/ shotId < MaxShots
  \/ shotId >= GALLERY_LIMIT - 1 /\ shotId < GALLERY_LIMIT - 1 + MaxShots

\* A background gallery handler up to its storage read: the screenshot of
\* the message and the array chrome.storage.local.get returned.
GalleryRead(h) ==
  /\ gpc[h] = "idle"
  /\ MoreShots
  /\ shotId' = shotId + 1
  /\ gshot' = [gshot EXCEPT ![h] = shotId + 1]
  /\ gcopy' = [gcopy EXCEPT ![h] = gallery]
  /\ gpc' = [gpc EXCEPT ![h] = "set"]
  /\ UNCHANGED <<bgVars, recVars, domVars, dbVars, popVars, sesVars, moreVars, gallery, popupShots>>

\* The rest of the handler: unshift, splice(20), chrome.storage.local.set.
GalleryWrite(h) ==
  /\ gpc[h] = "set"
  /\ gallery' = UnshiftShot(gshot[h], gcopy[h])
  /\ gpc' = [gpc EXCEPT ![h] = "idle"]
  /\ UNCHANGED <<bgVars, recVars, domVars, dbVars, popVars, sesVars, moreVars, gshot, gcopy, popupShots, shotId>>

\* Popup captureScreenshotAdvanced on a successful capture: unshift on the
\* popup's array, slice(0, 20), saveScreenshots().
PopupGalleryAdd ==
  /\ MoreShots
  /\ shotId' = shotId + 1
  /\ popupShots' = UnshiftShot(shotId + 1, popupShots)
  /\ gallery' = popupShots'
  /\ UNCHANGED <<bgVars, recVars, domVars, dbVars, popVars, sesVars, moreVars, gpc, gshot, gcopy>>

\* Popup loadScreenshots (on opening and on the 3 s auto-refresh): the
\* popup's array becomes the deduplicated stored gallery, saved back when
\* deduplication removed something.
loadScreenshots ==
  /\ popupShots' = deduplicateScreenshots(gallery)
  /\ popupShots' # popupShots
  /\ gallery' = IF Len(popupShots') # Len(gallery) THEN popupShots' ELSE gallery
  /\ UNCHANGED <<bgVars, recVars, domVars, dbVars, popVars, sesVars, moreVars, gpc, gshot, gcopy, shotId>>

InitGallery ==
  /\ InitBackground({<<>>})
  /\ InitRecording /\ InitDom /\ InitTimers
  /\ InitGalleryWith({GalleryOf(0), GalleryOf(GALLERY_LIMIT - 1)})
  /\ InitTracker
  /\ InitSession
  /\ InitTabs
  /\ InitCtx
  /\ InitRender
  /\ InitImages({NoCrop})
  /\ InitNav
  /\ InitHeard

NextGallery ==
  \/ \E h \in Handlers : GalleryRead(h)
  \/ \E h \in Handlers : GalleryWrite(h)
  \/ PopupGalleryAdd
  \/ loadScreenshots

SpecGallery == InitGallery /\ [][NextGallery]_vars

\* C17: the stored gallery never holds more than 20 entries, and every
\* addition leaves the stored gallery as the stored gallery before it with
\* the new screenshot in front, cut to the 20 newest: only the oldest
\* entries are removed, the new one is kept.
C17_NewestTwentyKept ==
  /\ Len(gallery) <= GALLERY_LIMIT
  /\ [][/\ Len(gallery') <= GALLERY_LIMIT
        /\ \A h \in Handlers :
             (gpc[h] = "set" /\ gpc'[h] = "idle")
               => gallery' = UnshiftShot(gshot[h], gallery)
        /\ (shotId' # shotId /\ gpc' = gpc)
             => gallery' = UnshiftShot(shotId', gallery)]_vars

(***************************************************************************)
(* The popup's report download tracker and its auto-clear: the flags and   *)
(* the 1000 ms timeout live in the popup's script, the log and the gallery *)
(* in chrome.storage.local.  Closing the popup discards its script state   *)
(* and its timeouts.                                                       *)
(***************************************************************************)
AUTO_CLEAR_DELAY_MS == 1000

\* Auto-clear timeouts and clearSteps calls pending at once.
MaxPending == 2
\* Times the popup is opened in one behaviour.
MaxOpens == 2

ReportTypes == {"word", "tvd"}

trackerReset == [word |-> FALSE, tvd |-> FALSE]

shouldClearData_either(tr) == tr.word \/ tr.tvd

\* reportDownloadTracker.shouldClearData()
shouldClearData(tr) == tr.word /\ tr.tvd

\* markReportDownloaded: the flag of the report type.
MarkedTracker(tr, reportType) ==
  IF reportType = "word" THEN [tr EXCEPT !.word = TRUE]
  ELSE IF reportType = "tvd" THEN [tr EXCEPT !.tvd = TRUE]
  ELSE tr

\* reportDownloadTracker.markReportDownloaded(reportType): the flag, and a
\* 1000 ms timeout for the auto-clear when both flags are set.
markReportDownloaded(reportType) ==
  /\ tracker' = MarkedTracker(tracker, reportType)
  /\ clearTimers' = IF shouldClearData(tracker') THEN clearTimers + 1 ELSE clearTimers
  /\ generated' = generated \cup {reportType}

Pending ==
  clearTimers + clears.sent + clears.logDone + clears.bgDone
    + clears.osent + clears.ologDone

\* screenshots.sort((a, b) => a.timestamp - b.timestamp): in place, oldest
\* first.
SortByTimestamp(shots) ==
  LET ids == {shots[i] : i \in DOMAIN shots}
  IN  [i \in 1..Cardinality(ids) |->
         CHOOSE x \in ids : Cardinality({y \in ids : y < x}) = i - 1]

\* Frame of the popup actions: handlers of addStep and of the gallery, the
\* capture agent.
popFrame == <<hpc, hstep, hsteps, hpushed, nOps, recVars, domVars, dbVars,
              gpc, gshot, gcopy, shotId,
              sessionId, startTime, csOut, popupPc, sessionLog, activations, tick,
              pauseSnap, moreVars>>

\* generateWordDocumentReport: the popup's array is sorted in place; on
\* result.success the Word report is marked, otherwise (failure, timeout)
\* nothing is marked.
GenerateWord(success) ==
  /\ Pending < MaxPending
  /\ popupShots' = SortByTimestamp(popupShots)
  /\ IF success THEN markReportDownloaded("word")
                ELSE UNCHANGED <<tracker, clearTimers, generated>>
  /\ UNCHANGED <<popFrame, persisted, stored, last, gallery, allSteps, clears, opens>>
  /\ popupOp' = "generateWordDocumentReport"

\* generateTVDReport: needs the extension active, steps and screenshots; on
\* result.success the TVD report is marked.
GenerateTVD(success) ==
  /\ Pending < MaxPending
  /\ active
  /\ allSteps # <<>>
  /\ popupShots # <<>>
  /\ IF success THEN markReportDownloaded("tvd")
                ELSE UNCHANGED <<tracker, clearTimers, generated>>
  /\ UNCHANGED <<popFrame, persisted, stored, last, gallery, popupShots, allSteps, clears, opens>>
  /\ popupOp' = "generateTVDReport"

\* The auto-clear timeout: clearSteps(true) up to its first await (the
\* clear-steps message is sent), clearAllScreenshots(true), this.reset().
AutoClearFire ==
  /\ clearTimers > 0
  /\ clearTimers' = clearTimers - 1
  /\ clears' = [clears EXCEPT !.sent = @ + 1]
  /\ IF popupShots # <<>>
       THEN popupShots' = <<>> /\ gallery' = <<>>
       ELSE UNCHANGED <<popupShots, gallery>>
  /\ tracker' = trackerReset
  /\ generated' = {}
  /\ UNCHANGED <<popFrame, persisted, stored, last, allSteps, opens>>
  /\ popupOp' = "autoClear"

\* The user clears the steps and confirms: clearSteps() up to its first
\* await.
PopupClearSteps ==
  /\ Pending < MaxPending
  /\ clears' = [clears EXCEPT !.sent = @ + 1]
  /\ UNCHANGED <<popFrame, persisted, stored, last, gallery, popupShots,
                 tracker, clearTimers, allSteps, generated, opens>>
  /\ popupOp' = "clearSteps:send"

\* Background 'clear-steps': clearSteps().
BgClearLog(orphan) ==
  /\ IF orphan
       THEN clears.osent > 0
            /\ clears' = [clears EXCEPT !.osent = @ - 1, !.ologDone = @ + 1]
       ELSE clears.sent > 0
            /\ clears' = [clears EXCEPT !.sent = @ - 1, !.logDone = @ + 1]
  /\ ClearSteps
  /\ UNCHANGED <<recVars, domVars, dbVars, sesVars, moreVars, gallery, gpc, gshot, gcopy, popupShots,
                 shotId, tracker, clearTimers, allSteps, generated, opens, popupOp>>

\* Background 'clear-steps', after clearSteps(): storage.remove of the
\* temporary keys and of 'screenshots', then the response.
BgClearRemove(orphan) ==
  /\ IF orphan
       THEN clears.ologDone > 0
            /\ clears' = [clears EXCEPT !.ologDone = @ - 1]
       ELSE clears.logDone > 0
            /\ clears' = [clears EXCEPT !.logDone = @ - 1, !.bgDone = @ + 1]
  /\ gallery' = <<>>
  /\ UNCHANGED <<popFrame, persisted, stored, last, popupShots,
                 tracker, clearTimers, allSteps, generated, opens, popupOp>>

\* Popup clearSteps after the response to clear-steps: update-recording-state
\* (not recording, no session), allSteps = [], the tracker is reset.
PopupClearDone ==
  /\ clears.bgDone > 0
  /\ clears' = [clears EXCEPT !.bgDone = @ - 1]
  /\ allSteps' = <<>>
  /\ tracker' = trackerReset
  /\ generated' = {}
  /\ UNCHANGED <<popFrame, stored, last, gallery, popupShots, clearTimers, opens>>
  /\ popupOp' = "clearSteps"
  /\ persisted' = UpdateRecordingState(StateMsg(FALSE, 0, 0))

\* The user clears a non-empty gallery and confirms: clearAllScreenshots().
PopupClearAllScreenshots ==
  /\ popupShots # <<>>
  /\ popupShots' = <<>>
  /\ gallery' = <<>>
  /\ tracker' = trackerReset
  /\ generated' = {}
  /\ UNCHANGED <<popFrame, persisted, stored, last, clearTimers, allSteps, clears, opens>>
  /\ popupOp' = "clearAllScreenshots"

\* Popup loadSteps (auto-refresh): the popup's copy of the log.
loadSteps ==
  /\ active
  /\ allSteps # stored
  /\ allSteps' = stored
  /\ UNCHANGED <<popFrame, persisted, stored, last, gallery, popupShots,
                 tracker, clearTimers, clears, generated, opens>>
  /\ popupOp' = "loadSteps"

\* The popup is closed and opened again: its script state is the initial
\* one, its timeouts and the continuations of its calls are gone; the
\* messages it sent are still handled by the background.
PopupReopen ==
  /\ opens < MaxOpens
  /\ opens' = opens + 1
  /\ tracker' = trackerReset
  /\ clearTimers' = 0
  /\ generated' = {}
  /\ clears' = [sent |-> 0, logDone |-> 0, bgDone |-> 0,
                osent |-> clears.osent + clears.sent,
                ologDone |-> clears.ologDone + clears.logDone]
  /\ popupShots' = deduplicateScreenshots(gallery)
  /\ allSteps' = stored
  /\ UNCHANGED <<popFrame, persisted, stored, last, gallery>>
  /\ popupOp' = "open"

\* A session with steps recorded and screenshots in the gallery, the popup
\* open.
InitPopup ==
  /\ InitBackground({<<ClickStep(0, "#btn", "OK"), InputStep(1000, "a")>>})
  /\ recording = TRUE /\ active = TRUE /\ urlCached = TRUE
  /\ pendingRec = <<>> /\ timers = {} /\ msgs = <<>> /\ now = 0 /\ gated = {}
  /\ InitDom
  /\ InitTimers
  /\ InitGalleryWith({GalleryOf(0), GalleryOf(2)})
  /\ InitTracker
  /\ InitSession
  /\ InitTabs
  /\ InitCtx
  /\ InitRender
  /\ InitImages({NoCrop})
  /\ InitNav
  /\ InitHeard

NextPopup ==
  \/ \E success \in BOOLEAN : GenerateWord(success)
  \/ \E success \in BOOLEAN : GenerateTVD(success)
  \/ AutoClearFire
  \/ PopupClearSteps
  \/ \E orphan \in BOOLEAN : BgClearLog(orphan)
  \/ \E orphan \in BOOLEAN : BgClearRemove(orphan)
  \/ PopupClearDone
  \/ PopupClearAllScreenshots
  \/ loadSteps
  \/ loadScreenshots
  \/ PopupReopen

SpecPopup == InitPopup /\ [][NextPopup]_vars

\* C15: an auto-clear is scheduled only when both report types were
\* generated successfully since the tracker was last reset (so not by one
\* type generated repeatedly, nor by a failed generation), and after a
\* manual clear of the steps or of the screenshots both flags are false.
C15_AutoClearOnlyAfterBoth ==
  /\ [][clearTimers' > clearTimers => generated' = ReportTypes]_vars
  /\ [](popupOp \in {"clearSteps", "clearAllScreenshots"} => tracker = trackerReset)

\* Both reports were generated successfully and the auto-clear is
\* scheduled.
C15_Witness ==
  /\ clearTimers > 0
  /\ generated = ReportTypes
  /\ shouldClearData(tracker)

\* What runs without the user: a timeout that is due fires, the background
\* handles a message it received, a call resumes when its await is settled.
FairSpecPopup ==
  /\ SpecPopup
  /\ WF_vars(AutoClearFire)
  /\ WF_vars(\E orphan \in BOOLEAN : BgClearLog(orphan))
  /\ WF_vars(\E orphan \in BOOLEAN : BgClearRemove(orphan))
  /\ WF_vars(PopupClearDone)

\* The stored log and the stored gallery are empty, both flags are false.
AllCleared ==
  /\ stored = <<>>
  /\ gallery = <<>>
  /\ tracker = trackerReset

\* C16: once both report types were generated successfully, eventually the
\* stored log is empty, the stored gallery is empty and both tracker flags
\* are false.
C16_EventuallyCleared == (generated = ReportTypes) ~> AllCleared

(***************************************************************************)
(* Sessions: the capture agent's bcState.sessionId / startTime, the        *)
(* persisted RecordingState the background keeps, and the popup's          *)
(* activateExtension / deactivateExtension, which await the tab's answer.  *)
(* The capture agent's update-recording-state messages are not awaited:    *)
(* they queue in csOut.  The popup awaits its own, so they take effect in  *)
(* the popup's step.  Date.now() values are tick + 1, tick + 2, ...        *)
(***************************************************************************)
\* Activations in one behaviour.
MaxActivations == 2
\* Steps recorded in one behaviour.
MaxSessionSteps == 2
\* update-recording-state messages of the capture agent in flight at once.
MaxStateMsgs == 2

\* Pauses in one behaviour.
MaxPauses == 2

\* Frame of the session actions.
sesFrame == <<bgVars, urlCached, pendingRec, timers, msgs, now, gated,
              domVars, dbVars, galVars, popVars, resVars, ctxVars, renVars, imgVars,
              navVars,
              lisVars>>

\* `if (!window.bcState.sessionId) sessionId = Date.now() + random`
SessionIdOrNew(sid) == IF sid = 0 THEN tick + 1 ELSE sid

\* `if (!window.bcState.startTime) startTime = Date.now()`
StartTimeOrNew(st) == IF st = 0 THEN tick + 1 ELSE st

\* Popup activateExtension up to `await chrome.tabs.sendMessage(tab.id,
\* { type: 'activate-extension' })`.
PopupActivate ==
  /\ ~active
  /\ popupPc = "idle"
  /\ activations < MaxActivations
  /\ active' = TRUE
  /\ popupPc' = "activate:sent"
  /\ activations' = activations + 1
  /\ pauseSnap' = NoSnap
  /\ UNCHANGED <<sesFrame, repVars, recording, sessionId, startTime, persisted, csOut,
                 sessionLog, tick>>

\* Capture agent, 'activate-extension': recording, a sessionId and a
\* startTime if it has none, update-recording-state sent, the answer.
CsActivate ==
  /\ popupPc = "activate:sent"
  /\ recording' = TRUE
  /\ sessionId' = SessionIdOrNew(sessionId)
  /\ startTime' = StartTimeOrNew(startTime)
  /\ tick' = IF sessionId' # sessionId \/ startTime' # startTime THEN tick + 1 ELSE tick
  /\ csOut' = Append(csOut, StateMsg(TRUE, sessionId', startTime'))
  /\ popupPc' = "activate:answered"
  /\ indicator' = TRUE
  /\ UNCHANGED <<sesFrame, reportOut, lastReport, pauses, active, persisted, sessionLog, activations, pauseSnap>>

\* Popup activateExtension after the answer: its own sessionId and
\* startTime, update-recording-state with them.
PopupActivateDone ==
  /\ popupPc = "activate:answered"
  /\ tick' = tick + 1
  /\ persisted' = UpdateRecordingState(StateMsg(TRUE, tick + 1, tick + 1))
  /\ popupPc' = "idle"
  /\ UNCHANGED <<sesFrame, repVars, recording, active, sessionId, startTime, csOut,
                 sessionLog, activations, pauseSnap>>

\* Popup deactivateExtension up to stopRecording's __bugCapturerStop.
PopupDeactivate ==
  /\ active
  /\ popupPc = "idle"
  /\ active' = FALSE
  /\ popupPc' = "stop:sent"
  /\ pauseSnap' = NoSnap
  /\ UNCHANGED <<sesFrame, repVars, recording, sessionId, startTime, persisted, csOut,
                 sessionLog, activations, tick>>

\* Capture agent, __bugCapturerStop: stopRecording().
CsStop ==
  /\ popupPc = "stop:sent"
  /\ recording' = FALSE
  /\ popupPc' = "stop:answered"
  /\ indicator' = FALSE
  /\ UNCHANGED <<sesFrame, reportOut, lastReport, pauses, active, sessionId, startTime, persisted, csOut,
                 sessionLog, activations, tick, pauseSnap>>

\* Popup: the rest of stopRecording (update-recording-state, isRecording
\* false and nothing else), then deactivateExtension's own
\* update-recording-state (no session), then 'deactivate-extension' is sent.
PopupDeactivatePersist ==
  /\ popupPc = "stop:answered"
  /\ persisted' = UpdateRecordingState(StateMsg(FALSE, 0, 0))
  /\ popupPc' = "deactivate:sent"
  /\ UNCHANGED <<sesFrame, repVars, recording, active, sessionId, startTime, csOut,
                 sessionLog, activations, tick, pauseSnap>>

\* Capture agent, 'deactivate-extension': update-recording-state (no
\* session) sent, recording false; bcState.sessionId and startTime stay.
CsDeactivate ==
  /\ popupPc = "deactivate:sent"
  /\ csOut' = Append(csOut, StateMsg(FALSE, 0, 0))
  /\ recording' = FALSE
  /\ popupPc' = "idle"
  /\ indicator' = FALSE
  /\ reportOut' = Append(reportOut, [kind |-> "final"])
  /\ UNCHANGED <<sesFrame, lastReport, pauses, active, sessionId, startTime, persisted,
                 sessionLog, activations, tick, pauseSnap>>

\* What is observed at a pause: the session in the capture agent and in the
\* persisted state, the steps recorded, whether anything was in flight.
PauseSnapshot ==
  [paused |-> TRUE, resumed |-> FALSE,
   settled |-> (csOut = <<>> /\ reportOut = <<>> /\ popupPc = "idle"),
   sessionId |-> sessionId, startTime |-> startTime,
   persisted |-> persisted, sessionLog |-> sessionLog]

ResumeSnapshot ==
  IF pauseSnap.paused THEN [pauseSnap EXCEPT !.resumed = TRUE] ELSE pauseSnap

\* Capture agent toggleRecording (indicator click, Ctrl+Shift+B, popup
\* toggle): the flag is flipped and sent with the session as it is; on
\* resume a missing sessionId / startTime is generated; on pause
\* generateReport() and save-report (isPause); the state is sent again.
toggleRecording ==
  /\ Len(csOut) < MaxStateMsgs
  /\ recording => pauses < MaxPauses
  /\ recording' = ~recording
  /\ sessionId' = IF recording' THEN SessionIdOrNew(sessionId) ELSE sessionId
  /\ startTime' = IF recording' THEN StartTimeOrNew(startTime) ELSE startTime
  /\ tick' = IF sessionId' # sessionId \/ startTime' # startTime THEN tick + 1 ELSE tick
  /\ csOut' = csOut \o <<StateMsg(recording', sessionId, startTime),
                          StateMsg(recording', sessionId', startTime')>>
  /\ pauseSnap' = IF recording' THEN ResumeSnapshot ELSE PauseSnapshot
  /\ pauses' = IF recording' THEN pauses ELSE pauses + 1
  /\ reportOut' = IF recording' THEN reportOut
                  ELSE Append(reportOut, [kind |-> "pause", pause |-> pauses + 1])
  /\ UNCHANGED <<sesFrame, lastReport, indicator, active, persisted, popupPc, sessionLog, activations>>

\* The indicator's pause button: recording false, update-recording-state
\* with the session kept.  The click does not reach the indicator's own
\* listener (stopPropagation).
PauseButton ==
  /\ indicator
  /\ recording
  /\ pauses < MaxPauses
  /\ Len(csOut) < MaxStateMsgs
  /\ recording' = FALSE
  /\ csOut' = Append(csOut, StateMsg(FALSE, sessionId, startTime))
  /\ pauseSnap' = PauseSnapshot
  /\ pauses' = pauses + 1
  /\ UNCHANGED <<sesFrame, reportOut, lastReport, indicator, active, sessionId,
                 startTime, persisted, popupPc, sessionLog, activations, tick>>

\* The indicator's start button: recording true, update-recording-state
\* with the sessionId as it is and `startTime || Date.now()`.
StartButton ==
  /\ indicator
  /\ ~recording
  /\ Len(csOut) < MaxStateMsgs
  /\ recording' = TRUE
  /\ csOut' = Append(csOut, StateMsg(TRUE, sessionId, StartTimeOrNew(startTime)))
  /\ tick' = IF startTime = 0 THEN tick + 1 ELSE tick
  /\ pauseSnap' = ResumeSnapshot
  /\ UNCHANGED <<sesFrame, repVars, active, sessionId, startTime, persisted,
                 popupPc, sessionLog, activations>>

\* Background 'save-report': persistentState.lastReport.
BgSaveReport ==
  /\ reportOut # <<>>
  /\ lastReport' = Head(reportOut)
  /\ reportOut' = Tail(reportOut)
  /\ UNCHANGED <<sesFrame, pauses, indicator, recording, active, sessionId,
                 startTime, persisted, csOut, popupPc, sessionLog, activations,
                 tick, pauseSnap>>

\* Background 'update-recording-state' for a message of the capture agent.
BgUpdateRecordingState ==
  /\ csOut # <<>>
  /\ persisted' = UpdateRecordingState(Head(csOut))
  /\ csOut' = Tail(csOut)
  /\ UNCHANGED <<sesFrame, repVars, recording, active, sessionId, startTime, popupPc,
                 sessionLog, activations, tick, pauseSnap>>

\* recordStep while recording: the step carries bcState.sessionId.
RecordSessionStep ==
  /\ recording
  /\ Len(sessionLog) < MaxSessionSteps
  /\ sessionLog' = Append(sessionLog,
                          [sessionId |-> sessionId, activation |-> activations])
  /\ UNCHANGED <<sesFrame, repVars, recording, active, sessionId, startTime, persisted,
                 csOut, popupPc, activations, tick, pauseSnap>>

InitSessionSpec ==
  /\ InitBackground({<<>>})
  /\ InitContent

NextSession ==
  \/ PopupActivate
  \/ CsActivate
  \/ PopupActivateDone
  \/ PopupDeactivate
  \/ CsStop
  \/ PopupDeactivatePersist
  \/ CsDeactivate
  \/ toggleRecording
  \/ PauseButton
  \/ StartButton
  \/ BgSaveReport
  \/ BgUpdateRecordingState
  \/ RecordSessionStep

SpecSession == InitSessionSpec /\ [][NextSession]_vars

\* Every message and every popup call has been handled.
SessionSettled == popupPc = "idle" /\ csOut = <<>> /\ reportOut = <<>>

\* C18: while the extension is activated, every step recorded since the
\* activation carries one sessionId, the one of the persisted
\* RecordingState.
C18_StepsCarryPersistedSession ==
  (active /\ SessionSettled) =>
    \A i \in DOMAIN sessionLog :
      sessionLog[i].activation = activations =>
        sessionLog[i].sessionId = persisted.sessionId

\* C19: once a deactivation is through, the sessionId is cleared in the
\* persisted RecordingState and in the capture agent, and, every activation
\* bringing a new sessionId, steps recorded under two different activations
\* never carry the same sessionId.
C19_FreshSessionPerActivation ==
  /\ (~active /\ SessionSettled /\ activations > 0) =>
       (persisted.sessionId = 0 /\ sessionId = 0)
  /\ \A i, j \in DOMAIN sessionLog :
       ( /\ sessionLog[i].activation > 0
         /\ sessionLog[j].activation > sessionLog[i].activation )
       => sessionLog[i].sessionId # sessionLog[j].sessionId

\* C20: after a pause followed by a resume, sessionId and startTime are what
\* they were before the pause, in the capture agent and in the persisted
\* RecordingState, and the persisted isRecording is true.
C20_PauseResumeKeepsSession ==
  ( /\ pauseSnap.paused
    /\ pauseSnap.resumed
    /\ pauseSnap.settled
    /\ SessionSettled )
  => /\ sessionId = pauseSnap.sessionId
     /\ startTime = pauseSnap.startTime
     /\ persisted.sessionId = pauseSnap.persisted.sessionId
     /\ persisted.startTime = pauseSnap.persisted.startTime
     /\ persisted.isRecording

\* C21: after a transition from recording to paused, by whichever control,
\* an interim report of that pause is saved, the persisted state is not
\* recording and holds the capture agent's sessionId and startTime, and the
\* recorded steps are what they were.
C21_PauseSavesReport ==
  ( /\ pauseSnap.paused
    /\ ~pauseSnap.resumed
    /\ pauseSnap.settled
    /\ SessionSettled )
  => /\ lastReport = [kind |-> "pause", pause |-> pauses]
     /\ ~persisted.isRecording
     /\ persisted.sessionId = pauseSnap.sessionId
     /\ persisted.sessionId # 0
     /\ persisted.startTime = pauseSnap.startTime
     /\ sessionLog = pauseSnap.sessionLog

\* ---------------------------------------------------------------------
\* Restoring the recording state in the pages of several tabs: the
\* background pushes 'restore-recording-state' 300 ms after a tab's
\* status became 'complete', every content script asks for
\* 'get-persistent-state' 500 ms after it was loaded.
\* ---------------------------------------------------------------------

MaxLoads == 3
MaxRestarts == 1
MaxStarts == 1

resFrame == <<bgVars, recVars, domVars, dbVars, galVars, popVars, repVars, ctxVars,
              renVars, imgVars, navVars,
              sessionId, startTime, popupPc, sessionLog, pauseSnap,
              lisVars>>

\* bcState of a content script that was just loaded: not recording, a
\* startTime and a sessionId of its own.
LoadedState == [isRecording |-> FALSE, sessionId |-> tick + 1, startTime |-> tick + 1]

\* What 'get-persistent-state' answers: the RecordingState of the storage.
PersistentStateReply == persisted

\* A navigation in a tab: the old page is gone, the content script is
\* loaded into the new one with its bcState and its 500 ms timer.
PageLoad(tb) ==
  /\ loads < MaxLoads
  /\ loads' = loads + 1
  /\ tabState' = [tabState EXCEPT ![tb] = LoadedState]
  /\ tick' = tick + 1
  /\ tabPc' = [tabPc EXCEPT ![tb] = "timer"]
  /\ completed' = [completed EXCEPT ![tb] = "no"]
  /\ restoredBy' = [restoredBy EXCEPT ![tb] = "none"]
  /\ UNCHANGED <<resFrame, persisted, csOut, activations, mem, pushTimer, reply,
                 restarts>>

\* chrome.tabs.onUpdated with status 'complete': while the worker's memory
\* says recording, the one tabUpdateTimeout is cleared and set for this tab.
PageComplete(tb) ==
  /\ tabPc[tb] # "none"
  /\ completed[tb] = "no"
  /\ completed' = [completed EXCEPT ![tb] =
                     IF persisted.isRecording THEN "recording" ELSE "idle"]
  /\ pushTimer' = IF mem.isRecording THEN tb ELSE pushTimer
  /\ UNCHANGED <<resFrame, persisted, csOut, activations, tick, mem, tabPc,
                 tabState, reply, restoredBy, loads, restarts>>

\* The 300 ms timer fires, restoreRecordingStateWithRetry reaches the
\* content script of its tab, 'restore-recording-state' is handled there.
PushFire ==
  /\ pushTimer # 0
  /\ tabPc[pushTimer] # "none"
  /\ tabState' = [tabState EXCEPT ![pushTimer] =
                     StateMsg(TRUE, mem.sessionId, mem.startTime)]
  /\ restoredBy' = [restoredBy EXCEPT ![pushTimer] = "push"]
  /\ pushTimer' = 0
  /\ UNCHANGED <<resFrame, persisted, csOut, activations, tick, mem, tabPc, reply,
                 completed, loads, restarts>>

\* The 500 ms timer of a content script fires: 'get-persistent-state'.
PullFire(tb) ==
  /\ tabPc[tb] = "timer"
  /\ tabPc' = [tabPc EXCEPT ![tb] = "asked"]
  /\ UNCHANGED <<resFrame, persisted, csOut, activations, tick, mem, pushTimer,
                 tabState, reply, completed, restoredBy, loads, restarts>>

\* Background 'get-persistent-state': the storage is read, merged into the
\* worker's memory and answered.
BgGetPersistentState(tb) ==
  /\ tabPc[tb] = "asked"
  /\ reply' = [reply EXCEPT ![tb] = PersistentStateReply]
  /\ mem' = persisted
  /\ tabPc' = [tabPc EXCEPT ![tb] = "replied"]
  /\ UNCHANGED <<resFrame, persisted, csOut, activations, tick, pushTimer,
                 tabState, completed, restoredBy, loads, restarts>>

\* The content script gets the answer: `if (persistentState.isRecording &&
\* !window.bcState.recording)` it records with the answered ids.
PullApply(tb) ==
  /\ tabPc[tb] = "replied"
  /\ tabPc' = [tabPc EXCEPT ![tb] = "idle"]
  /\ IF reply[tb].isRecording /\ ~tabState[tb].isRecording
       THEN /\ tabState' = [tabState EXCEPT ![tb] =
                              StateMsg(TRUE, reply[tb].sessionId, reply[tb].startTime)]
            /\ restoredBy' = [restoredBy EXCEPT ![tb] = "pull"]
       ELSE UNCHANGED <<tabState, restoredBy>>
  /\ UNCHANGED <<resFrame, persisted, csOut, activations, tick, mem, pushTimer,
                 reply, completed, loads, restarts>>

\* toggleRecording in a page that is not recording (Ctrl+Shift+B): the flag
\* is set, update-recording-state goes out with the page's ids, once for
\* the toggled flag and once more for the resume.
TabToggleOn(tb) ==
  /\ activations < MaxStarts
  /\ tabPc[tb] # "none"
  /\ ~tabState[tb].isRecording
  /\ ~persisted.isRecording
  /\ csOut = <<>>
  /\ activations' = activations + 1
  /\ tabState' = [tabState EXCEPT ![tb].isRecording = TRUE]
  /\ csOut' = csOut \o
        << StateMsg(TRUE, tabState[tb].sessionId, tabState[tb].startTime),
           StateMsg(TRUE, tabState[tb].sessionId, tabState[tb].startTime) >>
  /\ UNCHANGED <<resFrame, persisted, tick, mem, pushTimer, tabPc, reply,
                 completed, restoredBy, loads, restarts>>

\* Background 'update-recording-state': the worker's memory and the storage.
BgUpdateMemoryAndStorage ==
  /\ csOut # <<>>
  /\ persisted' = UpdateRecordingState(Head(csOut))
  /\ mem' = UpdateRecordingState(Head(csOut))
  /\ csOut' = Tail(csOut)
  /\ UNCHANGED <<resFrame, activations, tick, pushTimer, tabPc, tabState, reply,
                 completed, restoredBy, loads, restarts>>

\* The idle service worker is stopped and started again: persistentState
\* is the declared one, the storage is kept.
WorkerRestart ==
  /\ restarts < MaxRestarts
  /\ pushTimer = 0
  /\ csOut = <<>>
  /\ \A tb \in Tabs : tabPc[tb] \notin {"asked", "replied"}
  /\ mem.isRecording
  /\ restarts' = restarts + 1
  /\ mem' = FreshState
  /\ UNCHANGED <<resFrame, persisted, csOut, activations, tick, pushTimer, tabPc,
                 tabState, reply, completed, restoredBy, loads>>

NextRestore ==
  \/ \E tb \in Tabs : PageLoad(tb)
  \/ \E tb \in Tabs : PageComplete(tb)
  \/ PushFire
  \/ \E tb \in Tabs : PullFire(tb)
  \/ \E tb \in Tabs : BgGetPersistentState(tb)
  \/ \E tb \in Tabs : PullApply(tb)
  \/ \E tb \in Tabs : TabToggleOn(tb)
  \/ BgUpdateMemoryAndStorage
  \/ WorkerRestart

InitRestore ==
  /\ InitBackground({<<>>})
  /\ InitContent

SpecRestore == InitRestore /\ [][NextRestore]_vars

\* The timers fire, messages are handled and answered.
FairSpecRestore ==
  /\ SpecRestore
  /\ WF_vars(PushFire)
  /\ WF_vars(BgUpdateMemoryAndStorage)
  /\ \A tb \in Tabs : /\ WF_vars(PullFire(tb))
                       /\ WF_vars(BgGetPersistentState(tb))
                       /\ WF_vars(PullApply(tb))

Restored(tb) ==
  /\ tabState[tb].isRecording
  /\ tabState[tb].sessionId = persisted.sessionId
  /\ tabState[tb].startTime = persisted.startTime

\* C22: a page that finished loading while the persisted RecordingState
\* said recording eventually records with the persisted sessionId and
\* startTime (or is left by a navigation), also when several tabs finish
\* loading before the 300 ms timer fires and after a worker restart.
C22_RestoredAfterLoad ==
  \A tb \in Tabs :
    (completed[tb] = "recording") ~> (Restored(tb) \/ completed[tb] # "recording")

\* ---------------------------------------------------------------------
\* Sending steps from a page whose extension context was invalidated:
\* recordStep and recordConsoleStep, their handling of 'Extension context
\* invalidated', and console.warn as setupConsoleCapture replaced it.
\* ---------------------------------------------------------------------

MaxPageSteps == 3
MaxStack == 3

\* chrome.runtime.sendMessage in an invalidated context throws at the call
\* or returns a rejected promise; the code handles both.
FailModes == {"throw", "reject"}

StepKinds == {"click", "console"}

ctxFrame == <<bgVars, active, urlCached, pendingRec, timers, msgs, now, gated,
              domVars, dbVars, galVars, popVars, resVars, renVars, imgVars, navVars,
              sessionId,
              startTime,
              persisted, csOut, popupPc, sessionLog, activations, tick, pauseSnap,
              reportOut, lastReport, pauses,
              lisVars>>

\* console.warn called by a catch block while recording is still true and
\* sendMessage throws: the replaced console.warn calls recordConsoleStep,
\* which pushes a console step, fails to send it and warns from its own
\* catch block; no call returns before the stack is exhausted.
RECURSIVE WarnCascade(_, _)
WarnCascade(steps, depth) ==
  IF depth >= MaxStack THEN steps
  ELSE WarnCascade(Append(steps, "console"), depth + 1)

\* The extension is reloaded or updated while the page stays open.
ContextInvalidated(mode) ==
  /\ ctxValid
  /\ ctxValid' = FALSE
  /\ failMode' = mode
  /\ UNCHANGED <<ctxFrame, recording, indicator, pageSteps, rejected, failures,
                 lateSteps>>

\* recordStep (bcState.actualUrl cached) or recordConsoleStep for an event
\* of the page while recording: the step is pushed to bcState.steps and
\* sent. In an invalidated context the send is rejected later, or it
\* throws: the catch block warns before it would clear the flag, the
\* warning cascades and the exception that ends it skips the assignment.
RecordPageStep(kind) ==
  /\ recording
  /\ Len(pageSteps) < MaxPageSteps
  /\ indicator' = indicator
  /\ recording' = recording
  /\ UNCHANGED <<ctxFrame, ctxValid, failMode>>
  /\ IF ctxValid
       THEN /\ pageSteps' = Append(pageSteps, kind)
            /\ UNCHANGED <<rejected, failures, lateSteps>>
       ELSE IF failMode = "reject"
       THEN /\ pageSteps' = Append(pageSteps, kind)
            /\ rejected' = rejected + 1
            /\ lateSteps' = lateSteps + (IF failures > 0 THEN 1 ELSE 0)
            /\ failures' = failures
       ELSE /\ pageSteps' = WarnCascade(Append(pageSteps, kind), 0)
            /\ failures' = failures + 1
            /\ lateSteps' = lateSteps + (IF failures > 0 THEN 1 ELSE 0) + MaxStack
            /\ rejected' = rejected

\* The .catch of a rejected send: console.warn first (while recording it
\* records a console step, whose send is rejected in turn), then
\* recording = false and the indicator hidden.
RejectionHandled ==
  /\ rejected > 0
  /\ failures' = failures + 1
  /\ IF recording
       THEN /\ pageSteps' = Append(pageSteps, "console")
            /\ lateSteps' = lateSteps + 1
            /\ rejected' = rejected
       ELSE /\ rejected' = rejected - 1
            /\ UNCHANGED <<pageSteps, lateSteps>>
  /\ recording' = FALSE
  /\ indicator' = FALSE
  /\ UNCHANGED <<ctxFrame, ctxValid, failMode>>

\* The page of a session that is being recorded.
InitContext ==
  /\ InitBackground({<<>>})
  /\ recording = TRUE /\ active = TRUE /\ urlCached = TRUE
  /\ pendingRec = <<>> /\ timers = {} /\ msgs = <<>> /\ now = 0 /\ gated = {}
  /\ InitDom
  /\ InitTimers
  /\ InitGalleryWith({<<>>})
  /\ InitTracker
  /\ sessionId = 1 /\ startTime = 1 /\ persisted = StateMsg(TRUE, 1, 1)
  /\ csOut = <<>> /\ popupPc = "idle" /\ sessionLog = <<>> /\ activations = 1
  /\ tick = 1 /\ pauseSnap = NoSnap /\ reportOut = <<>> /\ lastReport = NoReport
  /\ pauses = 0 /\ indicator = TRUE
  /\ InitTabs
  /\ InitCtx
  /\ InitRender
  /\ InitImages({NoCrop})
  /\ InitNav
  /\ InitHeard

NextContext ==
  \/ \E mode \in FailModes : ContextInvalidated(mode)
  \/ \E kind \in StepKinds : RecordPageStep(kind)
  \/ RejectionHandled

SpecContext == InitContext /\ [][NextContext]_vars

\* C23: once a send has failed on an invalidated extension context the
\* recording flag is false, and no step was recorded or sent from the page
\* after that failure (the page is not re-activated in this specification).
C23_StopsAfterInvalidation ==
  failures > 0 => ~recording /\ lateSteps = 0

\* ---------------------------------------------------------------------
\* Rendering the step list of a report: generateRTFReport in the
\* background, convertStepsToReadable / formatStepDirectly in the popup.
\* A sentence is kept as its template and the step it was made from.
\* ---------------------------------------------------------------------

MaxRenderLen == 3

RenderKinds == {"click", "input", "navigation", "focus", "blur", "screenshot",
                "screenshot-custom", "console", "performance", "drag"}

\* A step of each kind as its recorder builds it.
RenderStep(kind, time) ==
  CASE kind = "click" -> ClickStep(time, "#btn", "OK")
    [] kind = "input" -> InputStep(time, "a")
    [] kind = "screenshot" -> ScreenshotStep(time)
    [] kind = "screenshot-custom" ->
         MkStep("screenshot", time, undefined, undefined, "screenshot-custom",
                undefined, BigSize)
    [] kind = "console" ->
         MkStep("console", time, "console", "message", "console", undefined, SmallSize)
    [] kind = "performance" ->
         MkStep("performance", time, "performance", "page-load", "performance",
                undefined, SmallSize)
    [] OTHER -> MkStep("step", time, "#name", "name", kind, undefined, SmallSize)

\* Logs of up to MaxRenderLen steps; the capture times follow the storage
\* order or run against it (a step stamped before a slow capture or url
\* lookup is stored after the steps recorded meanwhile).
RenderLogs ==
  UNION { { [i \in 1..n |-> RenderStep(ks[i], IF rev THEN n + 1 - i ELSE i)] :
              ks \in [1..n -> RenderKinds], rev \in BOOLEAN } : n \in 0..MaxRenderLen }

\* `step.meta?.action || step.type || 'action'`
StepAction(step) ==
  IF step.action # undefined THEN step.action
  ELSE IF step.type # undefined THEN step.type ELSE "action"

\* `step.text || step.selector || 'element'`
StepTarget(step) ==
  IF step.text # undefined THEN step.text
  ELSE IF step.selector # undefined THEN step.selector ELSE "element"

NoSentence == "none"

\* A filter that lets every step through.
RtfUiStep_all(step) == TRUE

\* generateRTFReport: the filter of console and performance steps.
RtfUiStep(step) == step.type # "console" /\ step.type # "performance"

\* generateRTFReport: the switch over the action; a screenshot step
\* returns before a line is added.
RtfSentence(step) ==
  LET action == StepAction(step)
  IN  CASE action = "click" -> "User clicked on {target}."
        [] action = "input" -> "User entered {value} in {target}."
        [] action = "select" -> "User selected {value} from {target}."
        [] action = "focus" -> "User focused on {target}."
        [] action = "blur" -> "User left {target}."
        [] action = "submit" -> "User submitted the form."
        [] action = "navigation" -> "User performed navigation on {target}."
        [] action = "keypress" -> "User pressed {text}."
        [] action = "change" -> "User performed change on {target}."
        [] action = "toggle" -> "User toggled {target}."
        [] action = "screenshot" -> NoSentence
        [] OTHER -> "User performed {action} on {target}."

\* convertStepsToReadable: the filter of console, performance, focus and
\* blur steps.
PopupUiStep(step) ==
  /\ step.type # "console"
  /\ step.type # "performance"
  /\ step.action # "focus"
  /\ step.action # "blur"

\* formatStepDirectly: null for focus and blur, a sentence otherwise.
formatStepDirectly(step) ==
  LET action == StepAction(step)
      value  == step.value
  IN  CASE action \in {"focus", "blur"} -> NoSentence
        [] action = "click" ->
             IF StepTarget(step) = "[REDACTED]" THEN "Clicked on a Sensitive field"
             ELSE "Clicked {target}"
        [] action = "input" ->
             IF value = "[REDACTED]" THEN "Entered sensitive data into {target}"
             ELSE IF value # undefined /\ value # "" THEN "Entered {value} into {target}"
             ELSE "Cleared {target}"
        [] action = "select" -> "Selected {details} from {target}"
        [] action = "submit" -> "Submitted the form"
        [] action = "hover" -> "Hovered over {target}"
        [] action = "scroll" -> "Scrolled on the page"
        [] action = "navigation" -> "Navigated to a new page"
        [] action = "keypress" -> "Pressed {text}"
        [] action = "change" -> "Modified {target}"
        [] action = "toggle" -> "Toggled {target}"
        [] action \in {"screenshot", "screenshot-custom"} -> "Captured a screenshot"
        [] action = "console" -> "Console {level}: {target}"
        [] action = "performance" -> "Performance event: {target}"
        [] OTHER -> "Performed {action} on {target}"

\* `uiSteps.forEach((step, index) => ...)`: the line index + 1 of every
\* step that got a sentence, in the order of uiSteps.
HasSentence(line) == line.sentence # NoSentence

NumberedLines(lines) ==
  SelectSeq([i \in 1..Len(lines) |->
               [n |-> i, sentence |-> lines[i].sentence, step |-> lines[i].step]],
            HasSentence)

generateRTFReport(steps) ==
  LET uiSteps == SelectSeq(steps, RtfUiStep)
  IN  NumberedLines([i \in 1..Len(uiSteps) |->
                       [sentence |-> RtfSentence(uiSteps[i]), step |-> uiSteps[i]]])

convertStepsToReadable(steps) ==
  LET uiSteps == SelectSeq(steps, PopupUiStep)
  IN  NumberedLines([i \in 1..Len(uiSteps) |->
                       [sentence |-> formatStepDirectly(uiSteps[i]),
                        step |-> uiSteps[i]]])

renFrame == <<bgVars, recVars, domVars, dbVars, galVars, popVars, sesVars, repVars,
              resVars, ctxVars, imgVars, navVars,
              lisVars>>

\* The background renders the stored log ('download-report-with-images').
RenderRtf ==
  /\ logBefore' = stored
  /\ rendered' = generateRTFReport(stored)
  /\ renderedBy' = "rtf"
  /\ UNCHANGED renFrame

\* The popup renders the steps it read from the background.
RenderPopup ==
  /\ logBefore' = stored
  /\ rendered' = convertStepsToReadable(stored)
  /\ renderedBy' = "popup"
  /\ UNCHANGED renFrame

InitRenderSpec ==
  /\ InitBackground(RenderLogs)
  /\ InitContent

NextRender == RenderRtf \/ RenderPopup

SpecRender == InitRenderSpec /\ [][NextRender]_vars

\* What the claims call a step of the human-facing list.
ClaimUiStep(step) == step.type \notin {"console", "performance"}

\* The kinds each renderer drops on purpose: focus and blur in the popup
\* ("too verbose"), screenshot in the RTF report (shown in its own section).
ClaimDropped(by, step) ==
  \/ by = "popup" /\ StepAction(step) \in {"focus", "blur"}
  \/ by = "rtf" /\ StepAction(step) = "screenshot"

ClaimKeptEverywhere(step) == ClaimUiStep(step)

ClaimKeptBy(step) == ClaimUiStep(step) /\ ~ClaimDropped(renderedBy, step)

RenderedSteps == [i \in 1..Len(rendered) |-> rendered[i].step]

\* C24: the step list of a rendered report is in non-decreasing order of
\* step timestamp, whatever the order of the stored log.
C24_RenderedByTimestamp ==
  \A i \in 1..Len(rendered) : \A j \in 1..Len(rendered) :
    i < j => rendered[i].step.time <= rendered[j].step.time

\* C29 as claimed: rendering yields one sentence for each step that is
\* neither console nor performance, in the order of the steps, none for
\* the others, and leaves the stored log unchanged.
C29_OneSentencePerUiStep ==
  renderedBy # "none" =>
    /\ RenderedSteps = SelectSeq(logBefore, ClaimKeptEverywhere)
    /\ stored = logBefore

\* C29: rendering yields, in the order of the steps, one sentence for each
\* step that is neither console nor performance nor of a kind the renderer
\* drops on purpose (focus and blur in the popup, screenshot in the RTF
\* report), unknown kinds included, none for the others, and leaves the
\* stored log unchanged.
C29_OneSentencePerKeptStep ==
  renderedBy # "none" =>
    /\ RenderedSteps = SelectSeq(logBefore, ClaimKeptBy)
    /\ \A i \in 1..Len(rendered) : rendered[i].sentence # NoSentence
    /\ stored = logBefore

\* Both renderers met a log with a console step, a dropped kind and an
\* unknown kind.
C29_Witness ==
  /\ renderedBy # "none"
  /\ Len(logBefore) = 3
  /\ logBefore[1].type = "console"
  /\ ClaimDropped(renderedBy, logBefore[2])
  /\ logBefore[3].action = "drag"
  /\ Len(rendered) = 1
  /\ rendered[1].sentence \in {"User performed {action} on {target}.",
                                "Performed {action} on {target}"}

\* ---------------------------------------------------------------------
\* Screenshot captures in the background: compressScreenshot, called by
\* the capture handler and once more by addStep.
\* ---------------------------------------------------------------------

\* The stages of compressScreenshot that can fail ("none": no failure).
CompressStages == {"none", "fetch", "decode", "canvas", "context", "encode", "dataurl"}

\* The stages whose failure is thrown or awaited inside the try block.
CaughtStages == {"fetch", "decode", "canvas", "context", "encode"}

\* What chrome.tabs.captureVisibleTab returns.
RawImage == [format |-> "png", passes |-> 0]

NoImage == [format |-> "none", passes |-> 0]

\* compressScreenshot: the original when the image is too large for it
\* (or the heap is too full) or a stage fails inside the try block, the re-encoded image when no stage
\* fails; the promise around the FileReader is returned, not awaited, so
\* its rejection is the rejection of compressScreenshot.
compressScreenshot(dataURL, tooLarge, failAt) ==
  IF tooLarge THEN [ok |-> TRUE, image |-> dataURL]
  ELSE IF failAt \in CaughtStages THEN [ok |-> TRUE, image |-> dataURL]
  ELSE IF failAt # "none" THEN [ok |-> FALSE, image |-> NoImage]
  ELSE [ok |-> TRUE, image |-> [format |-> "jpeg", passes |-> dataURL.passes + 1]]

\* addStep for a step with a dataURL: compressed once more; when that is
\* rejected the image is deleted from the step.
AddStepImage(dataURL, tooLarge, failAt) ==
  LET again == compressScreenshot(dataURL, tooLarge, failAt)
  IN  IF again.ok THEN again.image ELSE NoImage

capFrame == <<bgVars, recVars, domVars, dbVars, galVars, popVars, sesVars, repVars,
              resVars, ctxVars, renVars, navVars, cropIn, cropOut,
              lisVars>>

\* 'capture-screenshot' / 'capture-screenshot-pause': the visible tab is
\* captured and compressed (a rejection ends the handler in its catch
\* block, nothing is stored), the step goes to addStep.
CaptureScreenshot(cmd, tooLarge, failFirst, failAgain) ==
  LET first == compressScreenshot(RawImage, tooLarge, failFirst)
  IN  /\ capOut' =
           [cmd |-> cmd, tooLarge |-> tooLarge, failFirst |-> failFirst,
            failAgain |-> IF first.ok THEN failAgain ELSE "none",
            first |-> first,
            stored |-> first.ok,
            image |-> IF first.ok THEN AddStepImage(first.image, tooLarge, failAgain)
                      ELSE NoImage]
      /\ UNCHANGED capFrame

InitCodec ==
  /\ InitBackground({<<>>})
  /\ InitContent

NextCodec ==
  \E cmd \in {"capture-screenshot", "capture-screenshot-pause"} :
    \E tooLarge \in BOOLEAN : \E failFirst \in CompressStages :
      \E failAgain \in CompressStages :
        CaptureScreenshot(cmd, tooLarge, failFirst, failAgain)

SpecCodec == InitCodec /\ [][NextCodec]_vars

\* C25: whatever stage of the compression fails, compressScreenshot
\* returns the original image, and the capture stores its screenshot step
\* with an image.
C25_CompressionFailureKeepsImage ==
  (capOut.cmd # "none" /\ ~capOut.tooLarge) =>
    /\ capOut.failFirst # "none" => capOut.first = [ok |-> TRUE, image |-> RawImage]
    /\ (capOut.failFirst # "none" \/ capOut.failAgain # "none") =>
         capOut.stored /\ capOut.image # NoImage

\* ---------------------------------------------------------------------
\* cropScreenshotToArea: the rectangle asked for, the validation, the
\* clamping to the source image and the check of the canvas size.
\* ---------------------------------------------------------------------

MAX_CANVAS == 10000
MaxCoord == 3
MaxImage == 2

Max(a, b) == IF a > b THEN a ELSE b

\* Coordinates and sizes a request can carry, sizes of source images: small
\* ones, and one beyond the largest canvas.
CropCoords == -1..MaxCoord
CropSizes == (-1..MaxCoord) \cup {MAX_CANVAS + 1}
ImageSizes == (1..MaxImage) \cup {MAX_CANVAS + 1}

CropInputs ==
  [x : CropCoords, y : CropCoords, width : CropSizes, height : CropSizes,
   W : ImageSizes, H : ImageSizes]

\* `!area.x || !area.y || !area.width || !area.height` throws.
AreaValid(area) ==
  area.x # 0 /\ area.y # 0 /\ area.width # 0 /\ area.height # 0

\* `Math.max(0, Math.min(area.x, imageBitmap.width - 1))`
ClampStart_asked(start, size) == start

ClampStart(start, size) == Max(0, Min(start, size - 1))

\* `Math.max(1, Math.min(area.width, imageBitmap.width - Math.max(0,
\* area.x)))`, cut to the image from the clamped start, at least 1.
ClampExtent(start, extent, size) ==
  LET first == Max(1, Min(extent, size - Max(0, start)))
      cut   == IF ClampStart(start, size) + first > size
                 THEN size - ClampStart(start, size) ELSE first
  IN  Max(1, cut)

clampedArea(in) ==
  [x |-> ClampStart(in.x, in.W), y |-> ClampStart(in.y, in.H),
   width |-> ClampExtent(in.x, in.width, in.W),
   height |-> ClampExtent(in.y, in.height, in.H)]

\* The final validation before the canvas is created.
CanvasValid(area) ==
  ~(area.width <= 0 \/ area.height <= 0 \/ area.width > MAX_CANVAS
      \/ area.height > MAX_CANVAS)

cropScreenshotToArea(in) ==
  IF ~AreaValid(in) THEN [status |-> "rejected", error |-> "Invalid area coordinates"]
  ELSE IF ~CanvasValid(clampedArea(in))
    THEN [status |-> "rejected", error |-> "Invalid canvas dimensions"]
  ELSE [status |-> "cropped", area |-> clampedArea(in)]

cropFrame == <<bgVars, recVars, domVars, dbVars, galVars, popVars, sesVars, repVars,
               resVars, ctxVars, renVars, navVars, capOut,
              lisVars>>

\* 'capture-screenshot-custom' crops the captured image to message.area.
CropScreenshot ==
  /\ cropOut.status = "none"
  /\ cropOut' = cropScreenshotToArea(cropIn)
  /\ UNCHANGED <<cropFrame, cropIn>>

InitCrop ==
  /\ InitBackground({<<>>})
  /\ InitRecording /\ InitDom /\ InitTimers /\ InitGalleryWith({<<>>})
  /\ InitTracker /\ InitSession /\ InitTabs /\ InitCtx /\ InitRender
  /\ InitImages(CropInputs)
  /\ InitNav
  /\ InitHeard

NextCrop == CropScreenshot

SpecCrop == InitCrop /\ [][NextCrop]_vars

\* C26: a rectangle whose width or height is zero or negative is rejected
\* with an error, no image is produced for it.
C26_DegenerateRejected ==
  (cropOut.status # "none" /\ (cropIn.width <= 0 \/ cropIn.height <= 0))
    => cropOut.status = "rejected"

\* The rectangle lies partly or wholly outside the source image.
Outside(in) ==
  \/ in.x < 0 \/ in.y < 0
  \/ in.x + in.width > in.W
  \/ in.y + in.height > in.H

\* The rectangle that was cropped lies inside the source image.
CroppedInside ==
  /\ 0 <= cropOut.area.x /\ 0 <= cropOut.area.y
  /\ cropOut.area.width >= 1 /\ cropOut.area.height >= 1
  /\ cropOut.area.x + cropOut.area.width <= cropIn.W
  /\ cropOut.area.y + cropOut.area.height <= cropIn.H

\* C27 as claimed: a rectangle that passes the validation of the request
\* is cropped inside the image, and is clamped, not rejected, when it lies
\* partly or wholly outside.
C27_ClampedNotRejected ==
  (cropOut.status # "none" /\ AreaValid(cropIn)) =>
    /\ cropOut.status = "cropped" => CroppedInside
    /\ Outside(cropIn) => cropOut.status = "cropped"

\* C27: a rectangle that passes the validation of the request is cropped
\* inside the image; when it lies partly or wholly outside it is clamped,
\* and rejected only if the clamped width or height exceeds 10000.
C27_ClampedInsideImage ==
  (cropOut.status # "none" /\ AreaValid(cropIn)) =>
    /\ cropOut.status = "cropped" => CroppedInside
    /\ Outside(cropIn) =>
         \/ cropOut.status = "cropped"
         \/ Min(cropIn.width, cropIn.W) > MAX_CANVAS
         \/ Min(cropIn.height, cropIn.H) > MAX_CANVAS

\* A rectangle that starts left of and above the image and reaches beyond
\* it was cut to the whole image.
C27_Witness ==
  /\ cropIn.x < 0 /\ cropIn.y < 0
  /\ cropIn.width > cropIn.W /\ cropIn.height > cropIn.H
  /\ cropOut.status = "cropped"
  /\ cropOut.area = [x |-> 0, y |-> 0, width |-> cropIn.W, height |-> cropIn.H]

\* The rectangle has positive width and height and lies inside the image.
InsideImage(in) ==
  /\ in.width > 0 /\ in.height > 0
  /\ in.x >= 0 /\ in.y >= 0
  /\ in.x + in.width <= in.W
  /\ in.y + in.height <= in.H

\* C38: a rectangle with positive width and height inside the source image
\* is accepted, also when its x or y is 0, and exactly that rectangle is
\* cropped.
C38_InsideCroppedExactly ==
  (cropOut.status # "none" /\ InsideImage(cropIn)) =>
    /\ cropOut.status = "cropped"
    /\ cropOut.area = [x |-> cropIn.x, y |-> cropIn.y, width |-> cropIn.width,
                       height |-> cropIn.height]

\* ---------------------------------------------------------------------
\* Navigation tracking in the content script: updateCurrentUrl and its
\* detectors (load, popstate, MutationObserver, the 2 s interval), and the
\* beforeunload listener.  The page of a recording session, which the user
\* may pause and resume; it stays at a URL until the detectors of the last
\* change have run.
\* ---------------------------------------------------------------------

MaxUrls == 3

Detectors == {"load", "popstate", "observer", "poll"}

NavStep(direction, url) == [direction |-> direction, url |-> url]

navFrame == <<bgVars, recVars, domVars, dbVars, galVars, popVars, sesVars, repVars,
              resVars, ctxVars, renVars, imgVars,
              lisVars>>

\* updateCurrentUrl: a URL other than the last one seen is remembered and,
\* while recording, recorded as a navigation step.
updateCurrentUrl ==
  IF location # lastNavigationUrl
    THEN /\ lastNavigationUrl' = location
         /\ navSteps' = IF recording
                           THEN Append(navSteps, NavStep("arriving", location))
                           ELSE navSteps
    ELSE UNCHANGED <<lastNavigationUrl, navSteps>>

\* The page changes its URL without loading a new document: pushState
\* (with or without a change of the DOM) or back/forward with popstate.
SpaChange(viaPopstate, mutates) ==
  /\ navPc = "idle"
  /\ pendingDet = {}
  /\ location < MaxUrls
  /\ location' = location + 1
  /\ arrivals' = IF recording THEN Append(arrivals, location + 1) ELSE arrivals
  /\ pendingDet' = {"poll"} \cup (IF mutates THEN {"observer"} ELSE {})
                            \cup (IF viaPopstate THEN {"popstate"} ELSE {})
  /\ UNCHANGED <<navFrame, lastNavigationUrl, navSteps, departures, navPc>>

\* A detector runs updateCurrentUrl.
Detect(detector) ==
  /\ detector \in pendingDet
  /\ pendingDet' = pendingDet \ {detector}
  /\ updateCurrentUrl
  /\ UNCHANGED <<navFrame, location, arrivals, departures, navPc>>

\* beforeunload: while recording a navigation step for the page left.
BeforeUnload ==
  /\ navPc = "idle"
  /\ pendingDet = {}
  /\ location < MaxUrls
  /\ navSteps' = IF recording THEN Append(navSteps, NavStep("leaving", location))
                  ELSE navSteps
  /\ departures' = IF recording THEN departures + 1 ELSE departures
  /\ navPc' = "unloading"
  /\ UNCHANGED <<navFrame, location, lastNavigationUrl, arrivals, pendingDet>>

\* The next document: its content script starts with lastNavigationUrl =
\* window.location.href and is restored to recording.
PageArrive ==
  /\ navPc = "unloading"
  /\ location' = location + 1
  /\ lastNavigationUrl' = location + 1
  /\ arrivals' = IF recording THEN Append(arrivals, location + 1) ELSE arrivals
  /\ pendingDet' = {"load"}
  /\ navPc' = "loading"
  /\ UNCHANGED <<navFrame, navSteps, departures>>

\* window 'load': updateCurrentUrl.
LoadEvent ==
  /\ navPc = "loading"
  /\ pendingDet' = pendingDet \ {"load"}
  /\ updateCurrentUrl
  /\ navPc' = "idle"
  /\ UNCHANGED <<navFrame, location, arrivals, departures>>

\* Ctrl+Shift+B on a page at rest: recording is paused or resumed.
NavToggle ==
  /\ navPc = "idle"
  /\ pendingDet = {}
  /\ toggleRecording

NextNav ==
  \/ \E viaPopstate \in BOOLEAN : \E mutates \in BOOLEAN : SpaChange(viaPopstate, mutates)
  \/ \E detector \in Detectors \ {"load"} : Detect(detector)
  \/ BeforeUnload
  \/ PageArrive
  \/ LoadEvent
  \/ NavToggle
  \/ BgUpdateRecordingState
  \/ BgSaveReport

SpecNav == InitContext /\ [][NextNav]_vars

ArrivingSteps == SelectSeq(navSteps, LAMBDA s : s.direction = "arriving")

LeavingSteps == SelectSeq(navSteps, LAMBDA s : s.direction = "leaving")

\* C28: once the detectors have run, every URL arrived at while recording
\* has exactly one arriving navigation step, in order, and every page left
\* has one leaving navigation step.
C28_OneStepPerArrival ==
  (navPc = "idle" /\ pendingDet = {}) =>
    /\ [i \in 1..Len(ArrivingSteps) |-> ArrivingSteps[i].url] = arrivals
    /\ Len(LeavingSteps) = departures

\* ---------------------------------------------------------------------
\* The length of recorded values: the input listener's timer callback and
\* getSafeText for a field that is not sensitive.  A string is the
\* sequence of its characters.
\* ---------------------------------------------------------------------

MAX_INPUT_LENGTH == 100
FORM_SLICE == 77
MaxPad == 2

Repeat(c, n) == [i \in 1..n |-> c]

Ellipsis == <<".", ".", ".">>

\* Values of a field: letters with white space before and after.
ValueLengths ==
  {0, 1, FORM_SLICE, MAX_INPUT_LENGTH - 1, MAX_INPUT_LENGTH, MAX_INPUT_LENGTH + 1,
   2 * MAX_INPUT_LENGTH}

FieldValues ==
  { Repeat(" ", lead) \o Repeat("x", n) \o Repeat(" ", trail) :
      lead \in 0..MaxPad, n \in ValueLengths, trail \in 0..MaxPad }

ValueElements ==
  [tagName : {"INPUT", "SELECT"}, name : {"user"}, id : {""}, placeholder : {""},
   type : {"text"}, value : FieldValues]

\* String.prototype.trim
Trim(s) ==
  IF \A i \in DOMAIN s : s[i] = " " THEN <<>>
  ELSE LET from == CHOOSE i \in DOMAIN s : s[i] # " " /\ \A j \in 1..(i - 1) : s[j] = " "
           upto == CHOOSE i \in DOMAIN s :
                     s[i] # " " /\ \A j \in (i + 1)..Len(s) : s[j] = " "
       IN  SubSeq(s, from, upto)

\* String.prototype.slice(0, n)
Slice(s, n) == SubSeq(s, 1, Min(n, Len(s)))

\* The input listener's timer callback: `inputValue = element.value.trim()`
\* and, for a field that is not sensitive, `displayValue = inputValue`.
InputDisplayValue(value) == Trim(value)

\* getSafeText for a form element and a value: `value.length >
\* MAX_INPUT_LENGTH ? value.slice(0, 77) + '...' : value`.
FormTextValue(value) ==
  IF Len(value) > MAX_INPUT_LENGTH THEN Slice(value, FORM_SLICE) \o Ellipsis ELSE value

SelectedPrefix == <<"S", "e", "l", "e", "c", "t", "e", "d", ":", " ">>

valFrame == <<bgVars, recVars, dbVars, galVars, popVars, sesVars, moreVars, element>>

\* The timer callback of the input listener: a step when the trimmed value
\* is not empty, the value in meta.value (and in meta.details), the field
\* name in text.
ValueInput ==
  /\ element.tagName = "INPUT"
  /\ produced = <<>>
  /\ Trim(element.value) # <<>>
  /\ produced' = <<[action |-> "input", value |-> InputDisplayValue(element.value),
                    textValue |-> <<>>]>>
  /\ UNCHANGED valFrame

\* The change listener on a select: recordStep('select', element,
\* `Selected: ${option.text}`), the option's text stripped by the DOM; the
\* value goes through getSafeText into text.
ValueSelect ==
  /\ element.tagName = "SELECT"
  /\ produced = <<>>
  /\ produced' = <<[action |-> "select", value |-> <<>>,
                    textValue |-> FormTextValue(SelectedPrefix \o Trim(element.value))]>>
  /\ UNCHANGED valFrame

InitValue ==
  /\ InitBackground({<<>>})
  /\ InitRecording
  /\ element \in ValueElements
  /\ produced = <<>>
  /\ InitTimers
  /\ InitGalleryWith({<<>>})
  /\ InitTracker
  /\ InitSession
  /\ InitTabs
  /\ InitCtx
  /\ InitRender
  /\ InitImages({NoCrop})
  /\ InitNav
  /\ InitHeard

NextValue == ValueInput \/ ValueSelect

SpecValue == InitValue /\ [][NextValue]_vars

\* A recorded value is trimmed; an option without text records the label
\* "Selected: " alone, which holds no value.
Trimmed(s) == s = Trim(s) \/ s = SelectedPrefix

\* C30: the value recorded for a field that is not sensitive, in the text
\* and in meta.value of the step, is trimmed and at most 100 characters
\* long, the ellipsis included, for debounced input steps too.
C30_ValueTrimmedAndBounded ==
  \A i \in DOMAIN produced :
    /\ Trimmed(produced[i].value) /\ Len(produced[i].value) <= MAX_INPUT_LENGTH
    /\ Trimmed(produced[i].textValue) /\ Len(produced[i].textValue) <= MAX_INPUT_LENGTH

\* ---------------------------------------------------------------------
\* getStoredSteps when chrome.storage.local.get rejects: the catch block
\* returns [] and addStep goes on with it.
\* ---------------------------------------------------------------------

\* addStep(newStep) whose `await getStoredSteps()` caught an error of the
\* storage read: `steps` is [], then shift, dedup, push and splice as
\* usual.  The store is not touched by the failed read.
AddStepReadFailed(h, newStep) ==
  /\ hpc[h] = "idle"
  /\ LET r == AddStepArray(<<>>, newStep)
     IN  /\ hsteps'  = [hsteps EXCEPT ![h] = r.steps]
         /\ hpushed' = [hpushed EXCEPT ![h] = r.pushed]
  /\ hstep' = [hstep EXCEPT ![h] = newStep]
  /\ hpc'   = [hpc EXCEPT ![h] = "set"]
  /\ nOps'  = nOps + 1
  /\ last'  = [NoOp EXCEPT !.op = "read", !.ok = FALSE, !.err = SetError,
                            !.step = newStep, !.before = stored]
  /\ UNCHANGED stored

\* A log of two steps, below the cap.
ShortLog == <<ClickStep(0, "#btn", "OK"), InputStep(1000, "a")>>

InitReadFail == InitBackground({<<>>, ShortLog, FillerLog}) /\ InitContent

ReadFailAppend ==
  /\ \E s \in SeqPool : nOps < MaxSeqAppends /\ AddStepRead(1, s)
  /\ UNCHANGED csVars

ReadFailAppendFailed ==
  /\ \E s \in SeqPool : nOps < MaxSeqAppends /\ AddStepReadFailed(1, s)
  /\ UNCHANGED csVars

ReadFailStore == AddStepWrite(1, SetOk) /\ UNCHANGED csVars

NextReadFail == ReadFailAppend \/ ReadFailAppendFailed \/ ReadFailStore

SpecReadFail == InitReadFail /\ [][NextReadFail]_vars

\* The steps of log L are still there, in order, at the start of log K.
KeptIn(L, K) == Len(L) <= Len(K) /\ \A i \in DOMAIN L : K[i] = L[i]

\* C36: when the read of the log fails during an append, the write of that
\* append does not lose the steps already stored (it does not replace the
\* stored log by a log holding only the new step).
C36_ReadFailureKeepsLog ==
  [][(last.op = "read" /\ ~last.ok /\ last'.op = "append") => KeptIn(stored, stored')]_vars

\* ---------------------------------------------------------------------
\* clear-steps while an addStep is between its read and its write.
\* ---------------------------------------------------------------------

\* A log of two steps recorded before the clear, unlike every step of the
\* pool.
OldLog == <<InputStep(1000, "a"), InputStep(1200, "b")>>

InitClearRace == InitBackground({OldLog}) /\ InitContent

ClearRaceAppend ==
  /\ \E h \in Handlers : \E s \in SeqPool :
       nOps < MaxSeqAppends /\ AddStepRead(h, s)
  /\ UNCHANGED csVars

ClearRaceStore == (\E h \in Handlers : AddStepWrite(h, SetOk)) /\ UNCHANGED csVars

\* The listener's 'clear-steps' / 'clear-all' case: `await clearSteps()`;
\* nothing waits for or cancels an addStep in flight.
ClearRaceClear == last.op # "clear" /\ ClearSteps /\ UNCHANGED csVars

NextClearRace == ClearRaceAppend \/ ClearRaceStore \/ ClearRaceClear

SpecClearRace == InitClearRace /\ [][NextClearRace]_vars

Entries(L) == {L[i] : i \in DOMAIN L}

\* C32: once a clear has completed, no step that was in the log before the
\* clear is in the stored log again, also when an append that had read the
\* log was in flight while the clear ran.
C32_ClearedStaysCleared ==
  [][last.op = "clear" => Entries(stored') \cap Entries(last.before) = {}]_vars

\* ---------------------------------------------------------------------
\* The runtime.onMessage listener of the background: one case per command,
\* the responses each path sends and what it stores.
\* ---------------------------------------------------------------------

MaxMessages == 2

Commands ==
  {"store-step", "add-step", "get-steps", "clear-steps", "clear-all",
   "get-current-tab-url", "update-current-url", "export-steps",
   "export-steps-with-assets", "download-report-with-images", "save-report",
   "get-persistent-state", "test-message", "capture-screenshot",
   "capture-screenshot-pause", "capture-screenshot-custom",
   "update-recording-state", "custom-screenshot-captured",
   "add-screenshot-to-gallery"}

UnknownCommands == {"ping", "get-step"}

\* A message: its command, message.step (NoStep: none), whether url and
\* sender.tab of update-current-url are there, message.isRecording of
\* update-recording-state.  A field is drawn only for the cases that read it.
Messages ==
  { m \in [cmd : Commands \cup UnknownCommands,
            step : {NoStep, InputStep(26, "a")},
            valid : BOOLEAN,
            isRecording : BOOLEAN] :
      /\ m.step # NoStep => m.cmd \in {"store-step", "add-step", "ping"}
      /\ ~m.valid => m.cmd = "update-current-url"
      /\ m.isRecording => m.cmd = "update-recording-state" }

\* What the platform does during the handler: every call succeeds, the
\* first awaited call of the case rejects, the heap is above the limit of
\* the capture case, there is no active tab.
Environments == {"ok", "throw", "memory", "notab"}

Ok == [ok |-> TRUE, error |-> ""]

Failed(error) == [ok |-> FALSE, error |-> error]

\* The stored state the listener reads and writes.
StoredState ==
  [stored |-> stored, gallery |-> gallery, persisted |-> persisted,
   lastReport |-> lastReport, mem |-> mem]

\* What a case did: the responses it sent, whether an error left the case
\* for the catch block of the listener, the stored state it leaves.
Ran(responses, thrown, S) == [responses |-> responses, thrown |-> thrown, S |-> S]

\* addStep on the stored log, read and write together.
AddStepStored(log, newStep) == StorePayload(AddStepArray(TrimmedOnRead(log), newStep).steps)

\* 'store-step' / 'add-step'
CaseStoreStep(msg, env, S) ==
  IF msg.step # NoStep
    THEN IF env = "throw"
           THEN Ran(<<Failed("set failed")>>, FALSE, S)
           ELSE Ran(<<Ok>>, FALSE, [S EXCEPT !.stored = AddStepStored(S.stored, msg.step)])
    ELSE Ran(<<Failed("No step provided")>>, FALSE, S)

\* 'clear-steps' / 'clear-all': the result of clearSteps is the response,
\* the removal of the other keys has a catch block of its own.
CaseClear(msg, env, S) ==
  IF env = "throw"
    THEN Ran(<<Failed("remove failed")>>, FALSE, S)
    ELSE Ran(<<Ok>>, FALSE, [S EXCEPT !.stored = <<>>, !.gallery = <<>>])

\* 'get-current-tab-url': a catch block of its own.
CaseGetUrl(msg, env, S) ==
  IF env = "throw" THEN Ran(<<Failed("error")>>, FALSE, S) ELSE Ran(<<Ok>>, FALSE, S)

\* 'update-current-url': a catch block of its own.
CaseUpdateUrl(msg, env, S) ==
  IF ~msg.valid THEN Ran(<<Failed("Invalid URL or sender tab")>>, FALSE, S)
  ELSE IF env = "throw" THEN Ran(<<Failed("error")>>, FALSE, S)
  ELSE Ran(<<Ok>>, FALSE, S)

\* 'export-steps', 'export-steps-with-assets', 'download-report-with-images':
\* an empty log is answered and the handler returns; an error of the
\* renderer leaves the case.
CaseExport(msg, env, S) ==
  IF S.stored = <<>> THEN Ran(<<Failed("No steps to export")>>, FALSE, S)
  ELSE IF env = "throw" THEN Ran(<<>>, TRUE, S)
  ELSE Ran(<<Ok>>, FALSE, S)

\* 'save-report': the report is kept in memory, then stored.
CaseSaveReport(msg, env, S) ==
  LET kept == [S EXCEPT !.lastReport = [kind |-> "final"]]
  IN  IF env = "throw" THEN Ran(<<>>, TRUE, kept) ELSE Ran(<<Ok>>, FALSE, kept)

\* 'get-persistent-state'
CaseGetState(msg, env, S) ==
  IF env = "throw" THEN Ran(<<>>, TRUE, S)
  ELSE Ran(<<Ok>>, FALSE, [S EXCEPT !.mem = S.persisted])

\* 'capture-screenshot' / 'capture-screenshot-pause': a catch block of its
\* own; the step goes to addStep.
CaseCapture(msg, env, S) ==
  CASE env = "memory" -> Ran(<<Failed("Memory limit reached")>>, FALSE, S)
    [] env = "notab"  -> Ran(<<Failed("No active tab found")>>, FALSE, S)
    [] env = "throw"  -> Ran(<<Failed("error")>>, FALSE, S)
    [] OTHER          ->
         Ran(<<Ok>>, FALSE, [S EXCEPT !.stored = AddStepStored(S.stored, ScreenshotStep(26))])

\* 'capture-screenshot-custom': a catch block of its own, no test of the
\* heap.
CaseCaptureCustom(msg, env, S) ==
  CASE env = "notab" -> Ran(<<Failed("No active tab found")>>, FALSE, S)
    [] env = "throw" -> Ran(<<Failed("error")>>, FALSE, S)
    [] OTHER         ->
         Ran(<<Ok>>, FALSE, [S EXCEPT !.stored = AddStepStored(S.stored, ScreenshotStep(26))])

\* 'update-recording-state': the state in memory is assigned, then stored.
CaseUpdateState(msg, env, S) ==
  LET state == UpdateRecordingState(StateMsg(msg.isRecording, 0, 0))
  IN  IF env = "throw"
        THEN Ran(<<>>, TRUE, [S EXCEPT !.mem = state])
        ELSE Ran(<<Ok>>, FALSE, [S EXCEPT !.mem = state, !.persisted = state])

\* 'custom-screenshot-captured' / 'add-screenshot-to-gallery': a catch
\* block of their own.
CaseGallery(msg, env, S) ==
  IF env = "throw" THEN Ran(<<Failed("error")>>, FALSE, S)
  ELSE Ran(<<Ok>>, FALSE, [S EXCEPT !.gallery = UnshiftShot(heard.count + 1, S.gallery)])

\* default
CaseDefault_silent(msg, env, S) == Ran(<<>>, FALSE, S)

CaseDefault(msg, env, S) == Ran(<<Failed("Unknown command")>>, FALSE, S)

\* switch (message.cmd)
SwitchCmd(msg, env, S) ==
  CASE msg.cmd \in {"store-step", "add-step"} -> CaseStoreStep(msg, env, S)
    [] msg.cmd = "get-steps" -> Ran(<<Ok>>, FALSE, S)
    [] msg.cmd \in {"clear-steps", "clear-all"} -> CaseClear(msg, env, S)
    [] msg.cmd = "get-current-tab-url" -> CaseGetUrl(msg, env, S)
    [] msg.cmd = "update-current-url" -> CaseUpdateUrl(msg, env, S)
    [] msg.cmd \in {"export-steps", "export-steps-with-assets",
                    "download-report-with-images"} -> CaseExport(msg, env, S)
    [] msg.cmd = "save-report" -> CaseSaveReport(msg, env, S)
    [] msg.cmd = "get-persistent-state" -> CaseGetState(msg, env, S)
    [] msg.cmd = "test-message" -> Ran(<<Ok>>, FALSE, S)
    [] msg.cmd \in {"capture-screenshot", "capture-screenshot-pause"} ->
         CaseCapture(msg, env, S)
    [] msg.cmd = "capture-screenshot-custom" -> CaseCaptureCustom(msg, env, S)
    [] msg.cmd = "update-recording-state" -> CaseUpdateState(msg, env, S)
    [] msg.cmd \in {"custom-screenshot-captured", "add-screenshot-to-gallery"} ->
         CaseGallery(msg, env, S)
    [] OTHER -> CaseDefault(msg, env, S)

\* The try / catch around the switch: an error that left its case is
\* answered by the catch block.
HandleMessage(msg, env, S) ==
  LET ran == SwitchCmd(msg, env, S)
  IN  [responses |-> IF ran.thrown THEN Append(ran.responses, Failed("error"))
                                   ELSE ran.responses,
       S |-> ran.S]

\* The listener handles one message to its end.
OnMessage(msg, env) ==
  /\ heard.count < MaxMessages
  /\ LET done == HandleMessage(msg, env, StoredState)
     IN  /\ stored' = done.S.stored
         /\ gallery' = done.S.gallery
         /\ persisted' = done.S.persisted
         /\ lastReport' = done.S.lastReport
         /\ mem' = done.S.mem
         /\ heard' = [cmd |-> msg.cmd, step |-> msg.step, env |-> env,
                      responses |-> done.responses, before |-> StoredState,
                      count |-> heard.count + 1]
  /\ UNCHANGED <<hpc, hstep, hsteps, hpushed, last, nOps, recVars, domVars, dbVars,
                 gpc, gshot, gcopy, popupShots, shotId, popVars,
                 sessionId, startTime, csOut, popupPc, sessionLog, activations, tick,
                 pauseSnap, reportOut, pauses, indicator,
                 pushTimer, tabPc, tabState, reply, completed, restoredBy, loads,
                 restarts, ctxVars, renVars, imgVars, navVars>>

InitListener == InitBackground({<<>>, ShortLog}) /\ InitContent

NextListener == \E msg \in Messages : \E env \in Environments : OnMessage(msg, env)

SpecListener == InitListener /\ [][NextListener]_vars

\* C37: every message the listener handled got exactly one response; an
\* unknown command got an error response and changed no stored state, and a
\* store-step without a step got an error response and left the log as it
\* was.
C37_OneResponse ==
  heard.cmd # "none" =>
    /\ Len(heard.responses) = 1
    /\ heard.cmd \in UnknownCommands =>
         ~heard.responses[1].ok /\ StoredState = heard.before
    /\ (heard.cmd \in {"store-step", "add-step"} /\ heard.step = NoStep) =>
         ~heard.responses[1].ok /\ stored = heard.before.stored

\* An unknown command was handled after a message that had stored a step.
C37_Witness ==
  /\ heard.cmd \in UnknownCommands
  /\ heard.count = 2
  /\ heard.before.stored # <<>>
  /\ heard.responses = <<Failed("Unknown command")>>

\* ---------------------------------------------------------------------
\* The popup's clearSteps while a tab is recording.
\* ---------------------------------------------------------------------

\* The popup is open on a recording tab (InitPopup); the user clicks in the
\* page and clears the steps in the popup.
NextClearStop ==
  \/ PopupClearSteps
  \/ BgClearLog(FALSE)
  \/ BgClearRemove(FALSE)
  \/ PopupClearDone
  \/ ClickEvent
  \/ HandleStoreStep(1)
  \/ RecStore(1)

SpecClearStop == InitPopup /\ [][NextClearStop]_vars

\* C31: after the popup's clearSteps has completed, the persisted
\* RecordingState is not recording, without sessionId and startTime, and no
\* further step is appended to the stored log.
C31_ClearStopsRecording ==
  /\ [](popupOp = "clearSteps" => persisted = StateMsg(FALSE, 0, 0))
  /\ [][popupOp = "clearSteps" => Len(stored') <= Len(stored)]_vars

\* ---------------------------------------------------------------------
\* Every sender of update-recording-state: the session actions, the popup's
\* stopRecording, clearSteps and checkRecordingState.
\* ---------------------------------------------------------------------

\* Popup stopRecording (the stop button): __bugCapturerStop to the tab, then
\* update-recording-state with isRecording false and nothing else.
PopupStopRecording ==
  /\ active
  /\ popupPc = "idle"
  /\ recording
  /\ recording' = FALSE
  /\ indicator' = FALSE
  /\ persisted' = UpdateRecordingState(StateMsg(FALSE, 0, 0))
  /\ UNCHANGED <<sesFrame, reportOut, lastReport, pauses, active, sessionId, startTime,
                 csOut, popupPc, sessionLog, activations, tick, pauseSnap>>

\* Popup clearSteps after 'clear-steps' was answered: update-recording-state
\* with isRecording false, sessionId null, startTime null.
PopupClearPersist ==
  /\ active
  /\ popupPc = "idle"
  /\ persisted.isRecording
  /\ persisted' = UpdateRecordingState(StateMsg(FALSE, 0, 0))
  /\ UNCHANGED <<sesFrame, repVars, recording, active, sessionId, startTime, csOut,
                 popupPc, sessionLog, activations, tick, pauseSnap>>

\* Popup checkRecordingState: the persisted state is asked from the
\* background, the recording flag from the tab; when they differ,
\* update-recording-state is sent with `isRecording: contentRecording` alone.
checkRecordingState ==
  /\ active
  /\ popupPc = "idle"
  /\ recording # persisted.isRecording
  /\ persisted' = UpdateRecordingState([isRecording |-> recording, sessionId |-> 0,
                                         startTime |-> 0])
  /\ UNCHANGED <<sesFrame, repVars, recording, active, sessionId, startTime, csOut,
                 popupPc, sessionLog, activations, tick, pauseSnap>>

NextSync ==
  \/ PopupActivate
  \/ CsActivate
  \/ PopupActivateDone
  \/ PopupDeactivate
  \/ CsStop
  \/ PopupDeactivatePersist
  \/ CsDeactivate
  \/ toggleRecording
  \/ PauseButton
  \/ StartButton
  \/ BgSaveReport
  \/ BgUpdateRecordingState
  \/ PopupStopRecording
  \/ PopupClearPersist
  \/ checkRecordingState

SpecSync == InitSessionSpec /\ [][NextSync]_vars

\* C34: in every state of the persisted RecordingState, isRecording = true
\* implies that sessionId and startTime are not null.
C34_RecordingHasSession ==
  persisted.isRecording => (persisted.sessionId # 0 /\ persisted.startTime # 0)

\* ---------------------------------------------------------------------
\* A pause between a page's load and the restore of its recording state.
\* ---------------------------------------------------------------------

\* toggleRecording in a page that is recording: the flag is cleared,
\* update-recording-state goes out with the page's ids, once for the
\* toggled flag and once more for the pause.
TabToggleOff(tb) ==
  /\ tabPc[tb] # "none"
  /\ tabState[tb].isRecording
  /\ csOut = <<>>
  /\ tabState' = [tabState EXCEPT ![tb].isRecording = FALSE]
  /\ csOut' = csOut \o
        << StateMsg(FALSE, tabState[tb].sessionId, tabState[tb].startTime),
           StateMsg(FALSE, tabState[tb].sessionId, tabState[tb].startTime) >>
  /\ UNCHANGED <<resFrame, persisted, activations, tick, mem, pushTimer, tabPc, reply,
                 completed, restoredBy, loads, restarts>>

NextCancel ==
  \/ \E tb \in Tabs : PageLoad(tb)
  \/ \E tb \in Tabs : PageComplete(tb)
  \/ PushFire
  \/ \E tb \in Tabs : PullFire(tb)
  \/ \E tb \in Tabs : BgGetPersistentState(tb)
  \/ \E tb \in Tabs : PullApply(tb)
  \/ \E tb \in Tabs : TabToggleOn(tb)
  \/ \E tb \in Tabs : TabToggleOff(tb)
  \/ BgUpdateMemoryAndStorage
  \/ WorkerRestart

SpecCancel == InitRestore /\ [][NextCancel]_vars

\* C35: a restore never puts a content script into the recording state
\* when the persisted RecordingState says not recording at the time the
\* restore is delivered.
C35_NoRestoreWhenStopped ==
  [][\A tb \in Tabs :
       (~tabState[tb].isRecording /\ tabState'[tb].isRecording
          /\ activations' = activations) => persisted.isRecording]_vars

====
